---- MODULE Spec2Model ----
(***************************************************************************)
(* Model of the canonical keyword resolution engine of demoSES:            *)
(*   backend/search/keyword_registry.py  (KeywordRegistry, load_keywords,   *)
(*                                        resolve, validate_only)          *)
(*   backend/search/query_parser.py      (parse)                           *)
(* and of the paper watcher:                                               *)
(*   src/storage.py                      (SeenStorage)                     *)
(*   src/handler.py, dal.py              (lambda_handler, SeenRepository)  *)
(*                                                                         *)
(* A Python str is a sequence of one-character strings, so that strip,     *)
(* lower, split, join and the \b-delimited regular expression search are   *)
(* computed character by character, as the interpreter computes them.      *)
(* A raised exception is a value: the operators that can raise return a    *)
(* record whose kind is "raise" (or, for _normalize_phrase, the empty      *)
(* string, which it never returns normally).                               *)
(***************************************************************************)
EXTENDS Integers, Sequences, FiniteSets, TLC

VARIABLES
    source,          \* the declarative source: the sequence of keyword records
    registry,        \* the KeywordRegistry object the caller built from source
    mtime,           \* the modification marker of the declarative source (st_mtime)
    REGISTRY_CACHE,  \* _REGISTRY_CACHE, the process-wide registry of load_keywords
    REGISTRY_MTIME,  \* _REGISTRY_MTIME, the marker recorded with REGISTRY_CACHE
    call,            \* the last call: operation, arguments and outcome
    exists,          \* whether the file of the declarative source is there
    builds,          \* how many KeywordRegistry objects load_keywords has built
    CACHE_ID,        \* which of them _REGISTRY_CACHE is: 0 for None, else its number
    last_build,      \* the last successful build: its object, marker and contents
    seen_file,       \* the JSON file of SeenStorage: whether it is there, and its records
    now,             \* datetime.now(timezone.utc), in days
    marks,           \* the items marked since the last reset_state, with the day of the mark
    pc,              \* per thread: the statement of load_keywords it is at
    lock,            \* _REGISTRY_LOCK: the thread that holds it, 0 when it is free
    local,           \* per thread: the local variables of its load_keywords call
    writes,          \* how often the source was rewritten while threads load
    forced,          \* whether some thread has called with force_reload=True
    calls,           \* how many load_keywords calls the threads have started
    assigned,        \* the registries assigned to _REGISTRY_CACHE by the threads
    files,           \* per path: the source file load_keywords(path=...) reads
    cache_path,      \* the path the last registry was built from
    table,           \* the paper ids the seen-repository of the handler holds
    last_run,        \* the last run of lambda_handler: what it fetched, how it ended
    runs,            \* how many runs of lambda_handler there were
    unsent           \* what was checked against the repository in runs whose mail failed

load_vars == <<exists, builds, CACHE_ID, last_build>>

seen_vars == <<seen_file, now, marks>>

thread_vars == <<pc, lock, local, writes, forced, calls, assigned>>

path_vars == <<files, cache_path>>

handler_vars == <<table, last_run, runs, unsent>>

more_vars == <<thread_vars, path_vars, handler_vars>>

vars == <<source, registry, mtime, REGISTRY_CACHE, REGISTRY_MTIME, call, load_vars, seen_vars,
          more_vars>>

----------------------------------------------------------------------------
(* Bounds of the model. *)

MaxEntries == 2      \* records in the declarative source
MaxPhrases == 2      \* phrases in the declarative source, all tiers together
MaxRecords == 2      \* records in a source that is written as a whole
MaxMarker == 2       \* modification markers a written source can carry
MaxBuilds == 3       \* registries that load_keywords builds in one run
MaxItems == 2        \* items in one mark_seen call
MaxNow == 3          \* days the clock runs
MaxThreads == 2      \* threads that call load_keywords
MaxCalls == 3        \* load_keywords calls the threads make, all together
MaxWrites == 2       \* rewrites of the source while threads load
MaxRuns == 2         \* runs of lambda_handler

----------------------------------------------------------------------------
(* Python str primitives. *)

UpperChars == <<"A", "B", "C", "E", "I", "L", "N", "R", "S", "T">>
LowerChars == <<"a", "b", "c", "e", "i", "l", "n", "r", "s", "t">>
Letters == {UpperChars[i] : i \in 1..Len(UpperChars)} \cup {LowerChars[i] : i \in 1..Len(LowerChars)}

\* str.isspace for one character
isspace(c) == c \in {" ", "\t"}

\* \w of the re module: letters, digits and the underscore
isword(c) == c \in Letters \cup {"0", "1", "2", "3", "4", "5", "6", "7", "8", "9", "_"}

lower_char(c) ==
    IF \E i \in 1..Len(UpperChars) : UpperChars[i] = c
    THEN LowerChars[CHOOSE i \in 1..Len(UpperChars) : UpperChars[i] = c]
    ELSE c

upper_char(c) ==
    IF \E i \in 1..Len(LowerChars) : LowerChars[i] = c
    THEN UpperChars[CHOOSE i \in 1..Len(LowerChars) : LowerChars[i] = c]
    ELSE c

lower(s) == [i \in 1..Len(s) |-> lower_char(s[i])]
upper(s) == [i \in 1..Len(s) |-> upper_char(s[i])]

RECURSIVE lstrip(_)
lstrip(s) ==
    IF s = <<>> THEN s
    ELSE IF isspace(Head(s)) THEN lstrip(Tail(s)) ELSE s

RECURSIVE rstrip(_)
rstrip(s) ==
    IF s = <<>> THEN s
    ELSE IF isspace(s[Len(s)]) THEN rstrip(SubSeq(s, 1, Len(s) - 1)) ELSE s

strip(s) == rstrip(lstrip(s))

\* str.split(): the maximal runs of non-whitespace characters, in order
RECURSIVE split_from(_, _, _)
split_from(s, cur, out) ==
    IF s = <<>> THEN (IF cur = <<>> THEN out ELSE Append(out, cur))
    ELSE IF isspace(Head(s))
         THEN split_from(Tail(s), <<>>, IF cur = <<>> THEN out ELSE Append(out, cur))
         ELSE split_from(Tail(s), Append(cur, Head(s)), out)

split(s) == split_from(s, <<>>, <<>>)

\* " ".join(words)
RECURSIVE join(_)
join(words) ==
    IF words = <<>> THEN <<>>
    ELSE IF Len(words) = 1 THEN words[1]
    ELSE words[1] \o <<" ">> \o join(Tail(words))

Min(S) == CHOOSE i \in S : \A j \in S : i <= j

\* \b at offset k of text: between text[k] and text[k+1] (1-based), where the
\* outside of the text counts as a non-word character
word_boundary(text, k) ==
    LET before == k >= 1 /\ isword(text[k])
        after == k + 1 <= Len(text) /\ isword(text[k + 1])
    IN before # after

\* the start positions at which re.compile(rf"\b{re.escape(phrase)}\b") matches in text
regex_matches(phrase, text) ==
    {i \in 1..(Len(text) + 1) :
        /\ i + Len(phrase) - 1 <= Len(text)
        /\ SubSeq(text, i, i + Len(phrase) - 1) = phrase
        /\ word_boundary(text, i - 1)
        /\ word_boundary(text, i + Len(phrase) - 1)}

----------------------------------------------------------------------------
(* keyword_registry.py *)

\* _normalize_phrase; the empty result stands for the ValueError it raises
normalize_phrase(value) == join(split(lower(strip(value))))

phrase_in_text(phrase, text) ==
    IF phrase = text THEN TRUE
    ELSE regex_matches(phrase, text) # {}

Modes == <<"exact", "synonym", "typo">>

\* what a raising constructor leaves: no registry, only the kind of the error
Raised(kind) ==
    [status |-> kind, entries |-> <<>>,
     lookups |-> [exact |-> <<>>, synonym |-> <<>>, typo |-> <<>>]]

EmptyRegistry == [Raised("ok") EXCEPT !.status = "ok"]

NoRegistry == Raised("none")

has_key(lookup, key) == \E i \in 1..Len(lookup) : lookup[i].key = key

\* register_terms with the duplicate test made on the phrase as written
RECURSIVE register_terms_raw_test(_, _, _, _)
register_terms_raw_test(reg, entry, mode, phrases) ==
    IF reg.status # "ok" \/ phrases = <<>> THEN reg
    ELSE LET phrase == Head(phrases)
             normalized == normalize_phrase(phrase)
             lookup == reg.lookups[mode]
         IN IF normalized = <<>> THEN Raised("InvalidInput")
            ELSE IF has_key(lookup, phrase) THEN Raised("DuplicatePhrase")
            ELSE register_terms_raw_test(
                    [reg EXCEPT !.lookups[mode] =
                        Append(lookup, [key |-> normalized,
                                        canonical_id |-> entry.canonical_id,
                                        phrase |-> phrase])],
                    entry, mode, Tail(phrases))

\* register_terms that stores the normalized phrase as the phrase
RECURSIVE register_terms_stores_key(_, _, _, _)
register_terms_stores_key(reg, entry, mode, phrases) ==
    IF reg.status # "ok" \/ phrases = <<>> THEN reg
    ELSE LET phrase == Head(phrases)
             normalized == normalize_phrase(phrase)
             lookup == reg.lookups[mode]
         IN IF normalized = <<>> THEN Raised("InvalidInput")
            ELSE IF has_key(lookup, normalized) THEN Raised("DuplicatePhrase")
            ELSE register_terms_stores_key(
                    [reg EXCEPT !.lookups[mode] =
                        Append(lookup, [key |-> normalized,
                                        canonical_id |-> entry.canonical_id,
                                        phrase |-> normalized])],
                    entry, mode, Tail(phrases))

RECURSIVE register_terms(_, _, _, _)
register_terms(reg, entry, mode, phrases) ==
    IF reg.status # "ok" \/ phrases = <<>> THEN reg
    ELSE LET phrase == Head(phrases)
             normalized == normalize_phrase(phrase)
             lookup == reg.lookups[mode]
         IN IF normalized = <<>> THEN Raised("InvalidInput")
            ELSE IF has_key(lookup, normalized) THEN Raised("DuplicatePhrase")
            ELSE register_terms(
                    [reg EXCEPT !.lookups[mode] =
                        Append(lookup, [key |-> normalized,
                                        canonical_id |-> entry.canonical_id,
                                        phrase |-> phrase])],
                    entry, mode, Tail(phrases))

has_id(reg, canonical_id) ==
    \E i \in 1..Len(reg.entries) : reg.entries[i].canonical_id = canonical_id

\* registry_init without the test on the canonical id: a later entry replaces
\* the earlier one in the entry set
RECURSIVE registry_init_no_id_test(_, _)
registry_init_no_id_test(reg, entries) ==
    IF reg.status # "ok" \/ entries = <<>> THEN reg
    ELSE LET entry == Head(entries)
             kept == SelectSeq(reg.entries, LAMBDA e : e.canonical_id # entry.canonical_id)
             r0 == [reg EXCEPT !.entries = Append(kept, entry)]
             r1 == register_terms(r0, entry, "exact", entry.terms)
             r2 == register_terms(r1, entry, "synonym", entry.synonyms)
             r3 == register_terms(r2, entry, "typo", entry.typos)
         IN registry_init_no_id_test(r3, Tail(entries))

RECURSIVE registry_init(_, _)
registry_init(reg, entries) ==
    IF reg.status # "ok" \/ entries = <<>> THEN reg
    ELSE LET entry == Head(entries)
             r0 == [reg EXCEPT !.entries = Append(@, entry)]
             r1 == register_terms(r0, entry, "exact", entry.terms)
             r2 == register_terms(r1, entry, "synonym", entry.synonyms)
             r3 == register_terms(r2, entry, "typo", entry.typos)
         IN IF has_id(reg, entry.canonical_id) THEN Raised("DuplicateId")
            ELSE registry_init(r3, Tail(entries))

KeywordRegistry(entries) == registry_init(EmptyRegistry, entries)

get(reg, canonical_id) ==
    reg.entries[CHOOSE i \in 1..Len(reg.entries) : reg.entries[i].canonical_id = canonical_id]

\* outcomes of a call
None == [kind |-> "none"]
Raise(error) == [kind |-> "raise", error |-> error]

\* the first item, in insertion order, of the first tier that has one;
\* hits[t] holds the positions that qualify in the map of tier Modes[t]
first_hit(reg, hits) ==
    LET tiers == {t \in 1..Len(Modes) : hits[t] # {}}
    IN IF tiers = {} THEN None
       ELSE LET mode == Modes[Min(tiers)]
                item == reg.lookups[mode][Min(hits[Min(tiers)])]
            IN [kind |-> "match", entry |-> get(reg, item.canonical_id),
                phrase |-> item.phrase, mode |-> mode]

\* match with the query only trimmed and lowercased
match_no_collapse(reg, query) ==
    LET normalized_query == lower(strip(query))
        direct == [t \in 1..Len(Modes) |->
                      {i \in 1..Len(reg.lookups[Modes[t]]) :
                          reg.lookups[Modes[t]][i].key = normalized_query}]
        scan == [t \in 1..Len(Modes) |->
                    {i \in 1..Len(reg.lookups[Modes[t]]) :
                        phrase_in_text(reg.lookups[Modes[t]][i].key, normalized_query)}]
        hit == first_hit(reg, direct)
    IN IF normalized_query = <<>> THEN Raise("InvalidInput")
       ELSE IF hit # None THEN hit
       ELSE first_hit(reg, scan)

\* match that scans for containment before it probes for equality
match_scan_first(reg, query) ==
    LET normalized_query == normalize_phrase(query)
        scan == [t \in 1..Len(Modes) |->
                    {i \in 1..Len(reg.lookups[Modes[t]]) :
                        phrase_in_text(reg.lookups[Modes[t]][i].key, normalized_query)}]
    IN IF normalized_query = <<>> THEN Raise("InvalidInput")
       ELSE first_hit(reg, scan)

match(reg, query) ==
    LET normalized_query == normalize_phrase(query)
        direct == [t \in 1..Len(Modes) |->
                      {i \in 1..Len(reg.lookups[Modes[t]]) :
                          reg.lookups[Modes[t]][i].key = normalized_query}]
        scan == [t \in 1..Len(Modes) |->
                    {i \in 1..Len(reg.lookups[Modes[t]]) :
                        phrase_in_text(reg.lookups[Modes[t]][i].key, normalized_query)}]
        hit == first_hit(reg, direct)
    IN IF normalized_query = <<>> THEN Raise("InvalidInput")
       ELSE IF hit # None THEN hit
       ELSE first_hit(reg, scan)

\* _coerce_sequence for a list value: each item stripped, the empty ones dropped
RECURSIVE coerce_sequence(_)
coerce_sequence(raw) ==
    IF raw = <<>> THEN <<>>
    ELSE LET text == strip(Head(raw))
         IN IF text # <<>> THEN <<text>> \o coerce_sequence(Tail(raw))
            ELSE coerce_sequence(Tail(raw))

\* KeywordEntry built from a record whose fields are taken as they are
KeywordEntry(payload) ==
    [canonical_id |-> payload.id, terms |-> payload.terms,
     synonyms |-> payload.synonyms, typos |-> payload.typos,
     negative_terms |-> payload.negative_terms, filters |-> payload.filters,
     boosts |-> payload.boosts, rerank |-> payload.rerank]

\* the value None where a str is expected: no str, as it is no one character
PyNone == <<"None">>

\* str(value) of a str or of None
str(value) == IF value = PyNone THEN <<"N", "o", "n", "e">> ELSE value

build_entry(payload) ==
    LET canonical_id == strip(str(payload.id))
        terms == coerce_sequence(payload.terms)
    IN IF "id" \notin DOMAIN payload THEN Raise("InvalidEntry")
       ELSE IF canonical_id = <<>> THEN Raise("InvalidEntry")
       ELSE IF terms = <<>> THEN Raise("InvalidEntry")
       ELSE [kind |-> "entry",
             entry |-> [canonical_id |-> canonical_id, terms |-> terms,
                        synonyms |-> coerce_sequence(payload.synonyms),
                        typos |-> coerce_sequence(payload.typos),
                        negative_terms |-> coerce_sequence(payload.negative_terms),
                        filters |-> payload.filters, boosts |-> payload.boosts,
                        rerank |-> payload.rerank]]

\* a load_keywords that never answers from the cache
load_keywords_always_rebuilds(force_reload) ==
    LET failed(error) == [ret |-> error, CACHE |-> REGISTRY_CACHE,
                          MTIME |-> REGISTRY_MTIME, built |-> FALSE]
        entries == [i \in 1..Len(source) |-> build_entry(source[i])]
        bad == {i \in 1..Len(source) : entries[i].kind = "raise"}
        reg == KeywordRegistry([i \in 1..Len(source) |-> entries[i].entry])
    IN IF ~exists THEN failed(Raise("FileNotFoundError"))
       ELSE IF bad # {} THEN failed(entries[Min(bad)])
       ELSE IF reg.status # "ok" THEN failed(Raise(reg.status))
       ELSE [ret |-> [kind |-> "registry", registry |-> reg],
             CACHE |-> reg, MTIME |-> mtime, built |-> TRUE]

\* a load_keywords that answers from the cache whatever the marker
load_keywords_ignores_marker(force_reload) ==
    LET failed(error) == [ret |-> error, CACHE |-> REGISTRY_CACHE,
                          MTIME |-> REGISTRY_MTIME, built |-> FALSE]
        entries == [i \in 1..Len(source) |-> build_entry(source[i])]
        bad == {i \in 1..Len(source) : entries[i].kind = "raise"}
        reg == KeywordRegistry([i \in 1..Len(source) |-> entries[i].entry])
    IN IF ~exists THEN failed(Raise("FileNotFoundError"))
       ELSE IF ~force_reload /\ REGISTRY_CACHE # NoRegistry
       THEN [ret |-> [kind |-> "registry", registry |-> REGISTRY_CACHE],
             CACHE |-> REGISTRY_CACHE, MTIME |-> REGISTRY_MTIME, built |-> FALSE]
       ELSE IF bad # {} THEN failed(entries[Min(bad)])
       ELSE IF reg.status # "ok" THEN failed(Raise(reg.status))
       ELSE [ret |-> [kind |-> "registry", registry |-> reg],
             CACHE |-> reg, MTIME |-> mtime, built |-> TRUE]

\* a load_keywords that records the marker it read before it builds
load_keywords_records_marker_first(force_reload) ==
    LET failed(error) == [ret |-> error, CACHE |-> REGISTRY_CACHE,
                          MTIME |-> mtime, built |-> FALSE]
        entries == [i \in 1..Len(source) |-> build_entry(source[i])]
        bad == {i \in 1..Len(source) : entries[i].kind = "raise"}
        reg == KeywordRegistry([i \in 1..Len(source) |-> entries[i].entry])
    IN IF ~exists THEN [failed(Raise("FileNotFoundError")) EXCEPT !.MTIME = REGISTRY_MTIME]
       ELSE IF ~force_reload /\ REGISTRY_CACHE # NoRegistry /\ REGISTRY_MTIME = mtime
       THEN [ret |-> [kind |-> "registry", registry |-> REGISTRY_CACHE],
             CACHE |-> REGISTRY_CACHE, MTIME |-> REGISTRY_MTIME, built |-> FALSE]
       ELSE IF bad # {} THEN failed(entries[Min(bad)])
       ELSE IF reg.status # "ok" THEN failed(Raise(reg.status))
       ELSE [ret |-> [kind |-> "registry", registry |-> reg],
             CACHE |-> reg, MTIME |-> mtime, built |-> TRUE]

\* what load_keywords returns or raises, with the cache and marker it leaves;
\* built says whether it constructed the registry it returns
load_keywords_path(force_reload, file) ==
    LET failed(error) == [ret |-> error, CACHE |-> REGISTRY_CACHE,
                          MTIME |-> REGISTRY_MTIME, built |-> FALSE]
        payload == file.content
        entries == [i \in 1..Len(payload) |-> build_entry(payload[i])]
        bad == {i \in 1..Len(payload) : entries[i].kind = "raise"}
        reg == KeywordRegistry([i \in 1..Len(payload) |-> entries[i].entry])
    IN IF ~file.exists THEN failed(Raise("FileNotFoundError"))
       ELSE IF ~force_reload /\ REGISTRY_CACHE # NoRegistry /\ REGISTRY_MTIME = file.mtime
       THEN [ret |-> [kind |-> "registry", registry |-> REGISTRY_CACHE],
             CACHE |-> REGISTRY_CACHE, MTIME |-> REGISTRY_MTIME, built |-> FALSE]
       ELSE IF bad # {} THEN failed(entries[Min(bad)])
       ELSE IF reg.status # "ok" THEN failed(Raise(reg.status))
       ELSE [ret |-> [kind |-> "registry", registry |-> reg],
             CACHE |-> reg, MTIME |-> file.mtime, built |-> TRUE]

\* load_keywords(force_reload=...): path is None and stands for _CONFIG_PATH,
\* the file of the declarative source
load_keywords(force_reload) ==
    load_keywords_path(force_reload,
                       [exists |-> exists, mtime |-> mtime, content |-> source])

\* the registry argument of resolve and parse: NoRegistry stands for None
registry_or_load(reg) ==
    IF reg # NoRegistry
    THEN [ret |-> [kind |-> "registry", registry |-> reg],
          CACHE |-> REGISTRY_CACHE, MTIME |-> REGISTRY_MTIME, built |-> FALSE]
    ELSE load_keywords(FALSE)

\* resolve once the registry is at hand
resolve_in(query, reg) ==
    LET m == match(reg, query)
    IN IF m.kind # "match" THEN m
       ELSE [kind |-> "result", canonical_id |-> m.entry.canonical_id,
             matched_term |-> m.phrase, mode |-> m.mode]

\* resolve: its outcome, with the cache and marker it leaves
resolve(query, reg) ==
    LET got == registry_or_load(reg)
    IN IF query = <<>> \/ strip(query) = <<>>
       THEN [ret |-> None, CACHE |-> REGISTRY_CACHE, MTIME |-> REGISTRY_MTIME]
       ELSE IF got.ret.kind = "raise" THEN got
       ELSE [got EXCEPT !.ret = resolve_in(query, got.ret.registry)]

\* validate_only that raises whatever the lenient flag
validate_only_always_strict(query, lenient) ==
    LET got == resolve(query, NoRegistry)
    IN IF got.ret = None THEN [got EXCEPT !.ret = Raise("UnapprovedKeyword")]
       ELSE got

validate_only(query, lenient) ==
    LET got == resolve(query, NoRegistry)
    IN IF got.ret = None
       THEN IF lenient THEN got ELSE [got EXCEPT !.ret = Raise("UnapprovedKeyword")]
       ELSE got

----------------------------------------------------------------------------
(* query_parser.py *)

STRICT == <<"S", "T", "R", "I", "C", "T">>
LENIENT == <<"L", "E", "N", "I", "E", "N", "T">>
ALLOWED_POLICIES == {STRICT, LENIENT}

\* a _normalize_policy that rejects the empty policy like any other
normalize_policy_rejects_empty(policy) ==
    LET value == upper(strip(policy))
    IN IF value \notin ALLOWED_POLICIES THEN Raise("UnsupportedPolicy")
       ELSE [kind |-> "policy", value |-> value]

\* _normalize_policy; None and "" are both the empty sequence
normalize_policy(policy) ==
    IF policy = <<>> THEN [kind |-> "policy", value |-> STRICT]
    ELSE LET value == upper(strip(policy))
         IN IF value \notin ALLOWED_POLICIES THEN Raise("UnsupportedPolicy")
            ELSE [kind |-> "policy", value |-> value]

\* the character class [a-z0-9@._-]
istoken(c) ==
    c \in {LowerChars[i] : i \in 1..Len(LowerChars)}
           \cup {"0", "1", "2", "3", "4", "5", "6", "7", "8", "9", "@", ".", "_", "-"}

\* re.findall(r"[a-z0-9@._-]+", s): the maximal runs of token characters, in order
RECURSIVE findall_from(_, _, _)
findall_from(s, cur, out) ==
    IF s = <<>> THEN (IF cur = <<>> THEN out ELSE Append(out, cur))
    ELSE IF ~istoken(Head(s))
         THEN findall_from(Tail(s), <<>>, IF cur = <<>> THEN out ELSE Append(out, cur))
         ELSE findall_from(Tail(s), Append(cur, Head(s)), out)

\* a loop that keeps every occurrence of every token
RECURSIVE ordered_unique_keeps_repeats(_, _)
ordered_unique_keeps_repeats(candidates, ordered) ==
    IF candidates = <<>> THEN ordered
    ELSE LET token == Head(candidates)
         IN IF token # <<>>
            THEN ordered_unique_keeps_repeats(Tail(candidates), Append(ordered, token))
            ELSE ordered_unique_keeps_repeats(Tail(candidates), ordered)

\* the loop that keeps the first occurrence of every token
RECURSIVE ordered_unique(_, _)
ordered_unique(candidates, ordered) ==
    IF candidates = <<>> THEN ordered
    ELSE LET token == Head(candidates)
         IN IF token # <<>> /\ \A i \in 1..Len(ordered) : ordered[i] # token
            THEN ordered_unique(Tail(candidates), Append(ordered, token))
            ELSE ordered_unique(Tail(candidates), ordered)

\* pattern.sub(" ", text, count=1): the leftmost match replaced by one space
sub_once(phrase, text) ==
    LET found == regex_matches(phrase, text)
    IN IF found = {} THEN text
       ELSE LET i == Min(found)
            IN SubSeq(text, 1, i - 1) \o <<" ">> \o SubSeq(text, i + Len(phrase), Len(text))

extract_remainder_tokens(src, matched_term) ==
    LET lowered_source == lower(src)
        lowered_match == lower(matched_term)
        remainder == sub_once(lowered_match, lowered_source)
    IN ordered_unique(findall_from(remainder, <<>>, <<>>), <<>>)

\* a ParsedQuery that hands the remainder tokens to both partitions
ParsedQuery_both_partitions(query, policy_value, reg, m) ==
    LET entry == get(reg, m.canonical_id)
        remainder_tokens == extract_remainder_tokens(query, m.matched_term)
    IN [kind |-> "parsed",
        canonical_id |-> entry.canonical_id,
        matched_term |-> m.matched_term,
        mode |-> m.mode,
        filters |-> entry.filters,
        boosts |-> entry.boosts,
        rerank |-> entry.rerank,
        negative_terms |-> entry.negative_terms,
        must_not |-> remainder_tokens,
        ignored |-> IF policy_value = STRICT THEN <<>> ELSE remainder_tokens,
        raw |-> query]

\* a ParsedQuery that takes the advisory fields from the registry's first entry
ParsedQuery_first_entry_fields(query, policy_value, reg, m) ==
    LET entry == reg.entries[1]
        remainder_tokens == extract_remainder_tokens(query, m.matched_term)
    IN [kind |-> "parsed",
        canonical_id |-> m.canonical_id,
        matched_term |-> m.matched_term,
        mode |-> m.mode,
        filters |-> entry.filters,
        boosts |-> entry.boosts,
        rerank |-> entry.rerank,
        negative_terms |-> entry.negative_terms,
        must_not |-> IF policy_value = STRICT THEN remainder_tokens ELSE <<>>,
        ignored |-> IF policy_value = STRICT THEN <<>> ELSE remainder_tokens,
        raw |-> query]

\* the ParsedQuery of a resolved query
ParsedQuery(query, policy_value, reg, m) ==
    LET entry == get(reg, m.canonical_id)
        remainder_tokens == extract_remainder_tokens(query, m.matched_term)
    IN [kind |-> "parsed",
        canonical_id |-> entry.canonical_id,
        matched_term |-> m.matched_term,
        mode |-> m.mode,
        filters |-> entry.filters,
        boosts |-> entry.boosts,
        rerank |-> entry.rerank,
        negative_terms |-> entry.negative_terms,
        must_not |-> IF policy_value = STRICT THEN remainder_tokens ELSE <<>>,
        ignored |-> IF policy_value = STRICT THEN <<>> ELSE remainder_tokens,
        raw |-> query]

\* parse that tests the policy as the caller wrote it
parse_raw_policy(query, policy, reg) ==
    LET same(ret) == [ret |-> ret, CACHE |-> REGISTRY_CACHE, MTIME |-> REGISTRY_MTIME]
        policy_value == normalize_policy(policy)
        got == registry_or_load(reg)
        m == resolve_in(query, got.ret.registry)
    IN IF query = <<>> \/ strip(query) = <<>> THEN same(Raise("InvalidInput"))
       ELSE IF policy_value.kind = "raise" THEN same(policy_value)
       ELSE IF got.ret.kind = "raise" THEN got
       ELSE IF m = None
            THEN IF policy = LENIENT THEN [got EXCEPT !.ret = None]
                 ELSE [got EXCEPT !.ret = Raise("UnapprovedKeyword")]
       ELSE [got EXCEPT !.ret = ParsedQuery(query, policy_value.value, got.ret.registry, m)]

\* a parse that obtains the registry before it looks at the query
parse_loads_first(query, policy, reg) ==
    LET policy_value == normalize_policy(policy)
        got == registry_or_load(reg)
        m == resolve_in(query, got.ret.registry)
    IN IF got.ret.kind = "raise" THEN got
       ELSE IF query = <<>> \/ strip(query) = <<>> THEN [got EXCEPT !.ret = Raise("InvalidInput")]
       ELSE IF policy_value.kind = "raise" THEN [got EXCEPT !.ret = policy_value]
       ELSE IF m = None
            THEN IF policy_value.value = LENIENT THEN [got EXCEPT !.ret = None]
                 ELSE [got EXCEPT !.ret = Raise("UnapprovedKeyword")]
       ELSE [got EXCEPT !.ret = ParsedQuery(query, policy_value.value, got.ret.registry, m)]

\* parse: its outcome, with the cache and marker it leaves
parse(query, policy, reg) ==
    LET same(ret) == [ret |-> ret, CACHE |-> REGISTRY_CACHE, MTIME |-> REGISTRY_MTIME]
        policy_value == normalize_policy(policy)
        got == registry_or_load(reg)
        m == resolve_in(query, got.ret.registry)
    IN IF query = <<>> \/ strip(query) = <<>> THEN same(Raise("InvalidInput"))
       ELSE IF policy_value.kind = "raise" THEN same(policy_value)
       ELSE IF got.ret.kind = "raise" THEN got
       ELSE IF m = None
            THEN IF policy_value.value = LENIENT THEN [got EXCEPT !.ret = None]
                 ELSE [got EXCEPT !.ret = Raise("UnapprovedKeyword")]
       ELSE [got EXCEPT !.ret = ParsedQuery(query, policy_value.value, got.ret.registry, m)]

----------------------------------------------------------------------------
(* src/storage.py *)

\* re.sub(r'\s+', ' ', s): every run of whitespace becomes one space
RECURSIVE collapse_whitespace(_, _)
collapse_whitespace(s, in_run) ==
    IF s = <<>> THEN <<>>
    ELSE IF isspace(Head(s))
         THEN (IF in_run THEN <<>> ELSE <<" ">>) \o collapse_whitespace(Tail(s), TRUE)
         ELSE <<Head(s)>> \o collapse_whitespace(Tail(s), FALSE)

\* re.sub(r'[^\w\s]', '', s): only word characters and whitespace stay
remove_punctuation(s) == SelectSeq(s, LAMBDA c : isword(c) \/ isspace(c))

normalize_title(title) ==
    strip(remove_punctuation(collapse_whitespace(lower(title), FALSE)))

\* compute_hash: the SHA-256 digest of the composite key stands for the key
\* itself, two keys never sharing a digest
compute_hash(url, title) == url \o <<"|">> \o normalize_title(title)

\* SeenStorage(dedup_window_days=1)
dedup_window_days == 1

\* load_seen: the records of the file, none if the file is not there
load_seen == IF seen_file.exists THEN seen_file.items ELSE {}

has_hash(seen_items, item_hash) == \E record \in seen_items : record.hash = item_hash

\* is_seen: the record of the item's hash is there and not before the cutoff
is_seen(item) ==
    LET seen_items == load_seen
        item_hash == compute_hash(item.url, item.title)
        record == CHOOSE r \in seen_items : r.hash = item_hash
        cutoff_time == now - dedup_window_days
    IN IF ~has_hash(seen_items, item_hash) THEN FALSE
       ELSE IF record.seen_at < cutoff_time THEN FALSE
       ELSE TRUE

\* the loop of mark_seen: seen_items[item_hash] = {...} for every item in turn
RECURSIVE mark_items(_, _, _)
mark_items(seen_items, items, current_time) ==
    IF items = <<>> THEN seen_items
    ELSE LET item == Head(items)
             item_hash == compute_hash(item.url, item.title)
             record == [url |-> item.url, title |-> item.title,
                        seen_at |-> current_time, hash |-> item_hash]
         IN mark_items({r \in seen_items : r.hash # item_hash} \cup {record},
                       Tail(items), current_time)

\* a reset_state that leaves the file where it is
reset_state_keeps_file == seen_file

\* reset_state: the file is unlinked if it is there, so that it is not there
reset_state == [exists |-> FALSE, items |-> {}]

\* cleanup_old_records: the records that are kept
cleaned_items ==
    LET cutoff_time == now - dedup_window_days
    IN {record \in load_seen : record.seen_at >= cutoff_time}

----------------------------------------------------------------------------
(* The inputs: canonical ids, phrases of the declarative source, queries and
   policies.  Phrases and queries differ in letter case, in leading, trailing
   and inner whitespace and in punctuation at a word's edge. *)

Ids == {<<"a">>, <<"b">>}

Phrases ==
    {<<"a">>, <<" ", "A">>, <<"b">>, <<"a", " ", " ", "b">>, <<"a", "-">>, <<" ">>}

Queries ==
    {<<>>, <<" ">>, <<"a">>, <<"A", " ">>, <<"a", "b">>, <<"a", " ", "b">>,
     <<"A", " ", " ", "b">>, <<"a", "-">>, <<"a", "-", " ", "b">>,
     <<"a", "-", "b">>, <<"b", " ", "a">>, <<"b", " ", "A", " ", "b">>}

Policies ==
    {STRICT, LENIENT, <<" ", "l", "e", "n", "i", "e", "n", "t">>, <<"S", "T">>,
     <<"s", "t", "R", "i", "c", "t">>, <<>>}

\* a record of the declarative source for one canonical id, without phrases yet;
\* its advisory and opaque fields are the ones the source gives for that id
Record(id) ==
    [id |-> id, terms |-> <<>>, synonyms |-> <<>>, typos |-> <<>>,
     negative_terms |-> <<id \o <<"-">> >>,
     filters |-> [owner |-> id], boosts |-> [subject |-> Len(id)],
     rerank |-> [scale |-> id \o id]]

phrase_count(records) ==
    LET n(i) == Len(records[i].terms) + Len(records[i].synonyms) + Len(records[i].typos)
        sum[k \in 0..Len(records)] == IF k = 0 THEN 0 ELSE sum[k - 1] + n(k)
    IN sum[Len(records)]

Idle == [op |-> "idle", query |-> <<>>, arg |-> <<>>, ret |-> None]

\* no build has succeeded yet
NoBuild == [instance |-> 0, marker |-> -1, content |-> <<>>]

Threads == 1..MaxThreads

\* what a thread keeps between its steps
NoLocals ==
    [force_reload |-> FALSE, mtime |-> -1, payload |-> <<>>, read_at |-> -1,
     reg |-> NoRegistry, ret |-> None]

Paths == {<<"p", "1">>, <<"p", "2">>}

\* no file has been written yet
NoFiles == [path \in Paths |-> [exists |-> FALSE, mtime |-> 0, content |-> <<>>]]

\* no run has been made yet
NoRun ==
    [handler |-> "none", fetched |-> << >>, found |-> << >>,
     status |-> "none", effects |-> <<>>, new_items |-> <<>>]

\* no thread has called, no file is written, no run was made
InitMore ==
    /\ pc = [t \in Threads |-> "idle"]
    /\ lock = 0
    /\ local = [t \in Threads |-> NoLocals]
    /\ writes = 0
    /\ forced = FALSE
    /\ calls = 0
    /\ assigned = <<>>
    /\ files = NoFiles
    /\ cache_path = <<>>
    /\ table = {}
    /\ last_run = NoRun
    /\ runs = 0
    /\ unsent = {}

----------------------------------------------------------------------------
(* The state machine. *)

Init ==
    /\ source = <<>>
    /\ registry = NoRegistry
    /\ mtime = 0
    /\ REGISTRY_CACHE = NoRegistry
    /\ REGISTRY_MTIME = -1          \* None: no marker is recorded yet
    /\ call = Idle
    /\ exists = TRUE
    /\ builds = 0
    /\ CACHE_ID = 0
    /\ last_build = NoBuild
    /\ seen_file = [exists |-> FALSE, items |-> {}]
    /\ now = 0
    /\ marks = {}
    /\ InitMore

\* the source may be edited until a registry has been built from it
Editable ==
    /\ registry = NoRegistry
    /\ REGISTRY_CACHE = NoRegistry
    /\ call = Idle

\* the administrator appends a record to the declarative source
AddEntry(id) ==
    /\ Editable
    /\ Len(source) < MaxEntries
    /\ source' = Append(source, Record(id))
    /\ mtime' = mtime + 1
    /\ UNCHANGED <<registry, REGISTRY_CACHE, REGISTRY_MTIME, call, load_vars, seen_vars, more_vars>>

\* the administrator appends a phrase to a tier of the last record
AddPhrase(tier, phrase) ==
    /\ Editable
    /\ Len(source) > 0
    /\ phrase_count(source) < MaxPhrases
    /\ source' = [source EXCEPT ![Len(source)][tier] = Append(@, phrase)]
    /\ mtime' = mtime + 1
    /\ UNCHANGED <<registry, REGISTRY_CACHE, REGISTRY_MTIME, call, load_vars, seen_vars, more_vars>>

\* KeywordRegistry(entries) on the records taken as they are
Construct ==
    /\ Editable
    /\ registry' = KeywordRegistry([i \in 1..Len(source) |-> KeywordEntry(source[i])])
    /\ UNCHANGED <<source, mtime, REGISTRY_CACHE, REGISTRY_MTIME, call, load_vars, seen_vars, more_vars>>

\* a caller that holds a registry passes it; one that holds none relies on
\* load_keywords; a caller whose construction raised has stopped.  These calls
\* are followed for what the registry holds, not for which object it is.
CanCall == call = Idle /\ registry.status \in {"none", "ok"}

Returns(op, query, arg, got) ==
    /\ call' = [op |-> op, query |-> query, arg |-> arg, ret |-> got.ret]
    /\ REGISTRY_CACHE' = got.CACHE
    /\ REGISTRY_MTIME' = got.MTIME
    /\ UNCHANGED <<source, registry, mtime, load_vars, seen_vars, more_vars>>

LoadKeywords(force_reload) ==
    /\ CanCall
    /\ registry = NoRegistry
    /\ LET got == load_keywords(force_reload)
       IN Returns("load_keywords", <<>>, force_reload,
                  [got EXCEPT !.ret = IF @.kind = "raise" THEN @ ELSE [kind |-> "registry"]])

Resolve(query) ==
    /\ CanCall
    /\ Returns("resolve", query, <<>>, resolve(query, registry))

ValidateOnly(query, lenient) ==
    /\ CanCall
    /\ registry = NoRegistry
    /\ Returns("validate_only", query, lenient, validate_only(query, lenient))

Parse(query, policy) ==
    /\ CanCall
    /\ Returns("parse", query, policy, parse(query, policy, registry))

\* the caller takes the outcome; the next call can start
Done ==
    /\ call # Idle
    /\ call' = Idle
    /\ UNCHANGED <<source, registry, mtime, REGISTRY_CACHE, REGISTRY_MTIME, load_vars, seen_vars, more_vars>>

Next ==
    \/ \E id \in Ids : AddEntry(id)
    \/ \E tier \in {"terms", "synonyms", "typos"}, phrase \in Phrases : AddPhrase(tier, phrase)
    \/ Construct
    \/ \E force_reload \in BOOLEAN : LoadKeywords(force_reload)
    \/ \E query \in Queries : Resolve(query)
    \/ \E query \in Queries, lenient \in BOOLEAN : ValidateOnly(query, lenient)
    \/ \E query \in Queries, policy \in Policies : Parse(query, policy)
    \/ Done

Spec == Init /\ [][Next]_vars

----------------------------------------------------------------------------
(* The lifecycle of the registry that load_keywords caches.  Spec follows
   what the cached registry holds; here the source file is rewritten, touched
   and removed between the calls, and every registry that load_keywords
   constructs is a new object with a number of its own, so that "the same
   instance" and "a rebuild" can be told apart. *)

\* records a source file can hold: two well-formed ones, one whose phrase
\* repeats that of the first, and records without id key, with a blank id,
\* with the id None and with only a blank term
LoadRecords ==
    LET a == [Record(<<"a">>) EXCEPT !.terms = <<<<"a">>>>]
        b == [Record(<<"b">>) EXCEPT !.terms = <<<<"b">>>>]
    IN {a, b,
        [b EXCEPT !.terms = <<<<" ", "A">>>>],
        [terms |-> a.terms, synonyms |-> <<>>, typos |-> <<>>,
         negative_terms |-> <<>>, filters |-> a.filters, boosts |-> a.boosts,
         rerank |-> a.rerank],
        [a EXCEPT !.id = <<" ">>],
        [b EXCEPT !.id = PyNone],
        [a EXCEPT !.terms = <<<<" ">>>>]}

Sources == UNION {[1..n -> LoadRecords] : n \in 0..MaxRecords}

\* the administrator writes the source file; the marker it gets may or may not
\* differ from the one it had
WriteSource(content, marker) ==
    /\ call = Idle
    /\ registry = NoRegistry
    /\ source' = content
    /\ mtime' = marker
    /\ exists' = TRUE
    /\ UNCHANGED <<registry, REGISTRY_CACHE, REGISTRY_MTIME, call, builds, CACHE_ID, last_build, seen_vars, more_vars>>

\* the source file is removed
RemoveSource ==
    /\ call = Idle
    /\ registry = NoRegistry
    /\ exists
    /\ exists' = FALSE
    /\ source' = <<>>
    /\ mtime' = 0
    /\ UNCHANGED <<registry, REGISTRY_CACHE, REGISTRY_MTIME, call, builds, CACHE_ID, last_build, seen_vars, more_vars>>

\* load_keywords(force_reload=...): the outcome names the object returned
Load(force_reload) ==
    /\ call = Idle
    /\ registry = NoRegistry
    /\ builds < MaxBuilds
    /\ LET got == load_keywords(force_reload)
           instance == IF got.built THEN builds + 1 ELSE CACHE_ID
       IN /\ call' = [op |-> "load_keywords", query |-> <<>>, arg |-> force_reload,
                      ret |-> IF got.ret.kind = "raise" THEN got.ret
                              ELSE [kind |-> "registry", instance |-> instance]]
          /\ REGISTRY_CACHE' = got.CACHE
          /\ REGISTRY_MTIME' = got.MTIME
          /\ builds' = IF got.built THEN builds + 1 ELSE builds
          /\ CACHE_ID' = instance
          /\ last_build' = IF got.built
                           THEN [instance |-> instance, marker |-> mtime, content |-> source]
                           ELSE last_build
    /\ UNCHANGED <<source, registry, mtime, exists, seen_vars, more_vars>>

NextLoad ==
    \/ \E content \in Sources, marker \in 1..MaxMarker : WriteSource(content, marker)
    \/ RemoveSource
    \/ \E force_reload \in BOOLEAN : Load(force_reload)
    \/ Done

SpecLoad == Init /\ [][NextLoad]_vars

----------------------------------------------------------------------------
(* The deduplication store.  The clock counts days; an item is a ResultItem
   with its title, url and snippet. *)

ResultItem(title, url, snippet) == [title |-> title, url |-> url, snippet |-> snippet]

\* items that differ in url, in the case, whitespace and punctuation of the
\* title, and in the snippet
Items ==
    {ResultItem(<<"A", " ", "b">>, <<"u">>, <<"s">>),
     ResultItem(<<"a", " ", " ", "B", "!">>, <<"u">>, <<"t">>),
     ResultItem(<<"a", " ", "-", " ", "b">>, <<"u">>, <<"s">>),
     ResultItem(<<"a", "b">>, <<"u">>, <<"s">>),
     ResultItem(<<"A", " ", "b">>, <<"v">>, <<"s">>)}

ItemLists == UNION {[1..n -> Items] : n \in 0..MaxItems}

\* the marks after mark_seen(items) on the given day: one per url and title
RECURSIVE marked(_, _, _)
marked(old, items, day) ==
    IF items = <<>> THEN old
    ELSE LET item == Head(items)
         IN marked({m \in old : m.url # item.url \/ m.title # item.title}
                      \cup {[url |-> item.url, title |-> item.title, at |-> day]},
                   Tail(items), day)

\* a day passes
Tick ==
    /\ call = Idle
    /\ now < MaxNow
    /\ now' = now + 1
    /\ UNCHANGED <<source, registry, mtime, REGISTRY_CACHE, REGISTRY_MTIME, call,
                   load_vars, seen_file, marks, more_vars>>

MarkSeen(items) ==
    /\ call = Idle
    /\ seen_file' = [exists |-> TRUE, items |-> mark_items(load_seen, items, now)]
    /\ marks' = marked(marks, items, now)
    /\ call' = [op |-> "mark_seen", query |-> <<>>, arg |-> items, ret |-> None]
    /\ UNCHANGED <<source, registry, mtime, REGISTRY_CACHE, REGISTRY_MTIME, load_vars, now, more_vars>>

IsSeen(item) ==
    /\ call = Idle
    /\ call' = [op |-> "is_seen", query |-> <<>>, arg |-> item,
                ret |-> [kind |-> "bool", value |-> is_seen(item)]]
    /\ UNCHANGED <<source, registry, mtime, REGISTRY_CACHE, REGISTRY_MTIME, load_vars,
                   seen_vars, more_vars>>

\* cleanup_old_records saves only when it removed a record
CleanupOldRecords ==
    /\ call = Idle
    /\ seen_file' = IF cleaned_items # load_seen
                    THEN [exists |-> TRUE, items |-> cleaned_items]
                    ELSE seen_file
    /\ call' = [op |-> "cleanup_old_records", query |-> <<>>, arg |-> <<>>,
                ret |-> [kind |-> "int",
                         value |-> Cardinality(load_seen) - Cardinality(cleaned_items)]]
    /\ UNCHANGED <<source, registry, mtime, REGISTRY_CACHE, REGISTRY_MTIME, load_vars,
                   now, marks, more_vars>>

\* reset_state unlinks the file if it is there
ResetState ==
    /\ call = Idle
    /\ seen_file' = reset_state
    /\ marks' = {}
    /\ call' = [op |-> "reset_state", query |-> <<>>, arg |-> <<>>,
                ret |-> [kind |-> "log",
                         value |-> IF seen_file.exists THEN "deleted" ELSE "already empty"]]
    /\ UNCHANGED <<source, registry, mtime, REGISTRY_CACHE, REGISTRY_MTIME, load_vars, now, more_vars>>

NextSeen ==
    \/ Tick
    \/ \E items \in ItemLists : MarkSeen(items)
    \/ \E item \in Items : IsSeen(item)
    \/ CleanupOldRecords
    \/ ResetState
    \/ Done

SpecSeen == Init /\ [][NextSeen]_vars

----------------------------------------------------------------------------
(* load_keywords called from several threads.  The body of load_keywords is
   the block of "with _REGISTRY_LOCK": a thread takes the lock, reads the
   marker of the source (path.stat), compares it with the recorded one, reads
   and builds if it must, assigns _REGISTRY_CACHE and then _REGISTRY_MTIME,
   and leaves the block, by return or by an exception, which releases the
   lock.  Each of these is one step of the thread; the administrator may
   rewrite the source between any two steps, and every rewrite gives the
   source a marker it never had before. *)

\* contents the source takes here: two well-formed files and a malformed one
ThreadSources ==
    LET a == [Record(<<"a">>) EXCEPT !.terms = <<<<"a">>>>]
        b == [Record(<<"b">>) EXCEPT !.terms = <<<<"b">>>>]
    IN {<<a>>, <<b>>, <<[a EXCEPT !.terms = <<<<" ">>>>]>>}

\* a lock that lets every thread in
acquire_unlocked(holder) == TRUE

\* _REGISTRY_LOCK.acquire(): the thread goes on when no thread holds the lock
acquire(holder) == holder = 0

\* a load_keywords that reads the contents before the marker
load_keywords_reads_first ==
    <<"read", "stat", "check", "build", "publish_cache", "publish_mtime", "return">>

\* the statements of the locked block of load_keywords, in program order
load_keywords_steps ==
    <<"stat", "check", "read", "build", "publish_cache", "publish_mtime", "return">>

\* the statement that follows a statement
following(step) ==
    LET i == CHOOSE k \in 1..Len(load_keywords_steps) : load_keywords_steps[k] = step
    IN load_keywords_steps[i + 1]

\* the threads that are inside the locked block
InSection == {t \in Threads : pc[t] \notin {"idle", "acquire", "done"}}

InitThreads ==
    /\ source \in ThreadSources
    /\ registry = NoRegistry
    /\ mtime = 1
    /\ REGISTRY_CACHE = NoRegistry
    /\ REGISTRY_MTIME = -1
    /\ call = Idle
    /\ exists = TRUE
    /\ builds = 0
    /\ CACHE_ID = 0
    /\ last_build = NoBuild
    /\ seen_file = [exists |-> FALSE, items |-> {}]
    /\ now = 0
    /\ marks = {}
    /\ InitMore

\* what no step of a thread touches
thread_frame == <<registry, call, exists, last_build, seen_vars, path_vars, handler_vars>>

\* the thread leaves the block by an exception
Fails(t, error) ==
    /\ local' = [local EXCEPT ![t].ret = error]
    /\ lock' = 0
    /\ pc' = [pc EXCEPT ![t] = "done"]

\* a thread calls load_keywords(force_reload=...)
CallLoad(t, force_reload) ==
    /\ pc[t] = "idle"
    /\ calls < MaxCalls
    /\ calls' = calls + 1
    /\ forced' = (forced \/ force_reload)
    /\ local' = [local EXCEPT ![t] = [NoLocals EXCEPT !.force_reload = force_reload]]
    /\ pc' = [pc EXCEPT ![t] = "acquire"]
    /\ UNCHANGED <<source, mtime, REGISTRY_CACHE, REGISTRY_MTIME, builds, CACHE_ID,
                   lock, writes, assigned, thread_frame>>

\* with _REGISTRY_LOCK:
Acquire(t) ==
    /\ pc[t] = "acquire"
    /\ acquire(lock)
    /\ lock' = t
    /\ pc' = [pc EXCEPT ![t] = load_keywords_steps[1]]
    /\ UNCHANGED <<source, mtime, REGISTRY_CACHE, REGISTRY_MTIME, builds, CACHE_ID,
                   local, writes, forced, calls, assigned, thread_frame>>

\* mtime = path.stat().st_mtime
Stat(t) ==
    /\ pc[t] = "stat"
    /\ IF ~exists THEN Fails(t, Raise("FileNotFoundError"))
       ELSE /\ local' = [local EXCEPT ![t].mtime = mtime]
            /\ pc' = [pc EXCEPT ![t] = following("stat")]
            /\ UNCHANGED lock
    /\ UNCHANGED <<source, mtime, REGISTRY_CACHE, REGISTRY_MTIME, builds, CACHE_ID,
                   writes, forced, calls, assigned, thread_frame>>

\* if not force_reload and _REGISTRY_CACHE is not None and _REGISTRY_MTIME == mtime:
\*     return _REGISTRY_CACHE
Check(t) ==
    /\ pc[t] = "check"
    /\ pc' = [pc EXCEPT ![t] =
                 IF /\ ~local[t].force_reload
                    /\ REGISTRY_CACHE # NoRegistry
                    /\ REGISTRY_MTIME = local[t].mtime
                 THEN "return" ELSE following("check")]
    /\ UNCHANGED <<source, mtime, REGISTRY_CACHE, REGISTRY_MTIME, builds, CACHE_ID,
                   lock, local, writes, forced, calls, assigned, thread_frame>>

\* payload = _read_keywords_file(path)
Read(t) ==
    /\ pc[t] = "read"
    /\ IF ~exists THEN Fails(t, Raise("FileNotFoundError"))
       ELSE /\ local' = [local EXCEPT ![t].payload = source, ![t].read_at = mtime]
            /\ pc' = [pc EXCEPT ![t] = following("read")]
            /\ UNCHANGED lock
    /\ UNCHANGED <<source, mtime, REGISTRY_CACHE, REGISTRY_MTIME, builds, CACHE_ID,
                   writes, forced, calls, assigned, thread_frame>>

\* entries = [_build_entry(item) for item in payload]; KeywordRegistry(entries)
Build(t) ==
    /\ pc[t] = "build"
    /\ LET payload == local[t].payload
           entries == [i \in 1..Len(payload) |-> build_entry(payload[i])]
           bad == {i \in 1..Len(payload) : entries[i].kind = "raise"}
           reg == KeywordRegistry([i \in 1..Len(payload) |-> entries[i].entry])
       IN IF bad # {} THEN Fails(t, entries[Min(bad)])
          ELSE IF reg.status # "ok" THEN Fails(t, Raise(reg.status))
          ELSE /\ local' = [local EXCEPT ![t].reg = reg]
               /\ pc' = [pc EXCEPT ![t] = following("build")]
               /\ UNCHANGED lock
    /\ UNCHANGED <<source, mtime, REGISTRY_CACHE, REGISTRY_MTIME, builds, CACHE_ID,
                   writes, forced, calls, assigned, thread_frame>>

\* _REGISTRY_CACHE = KeywordRegistry(entries): the new object is assigned
PublishCache(t) ==
    /\ pc[t] = "publish_cache"
    /\ REGISTRY_CACHE' = local[t].reg
    /\ builds' = builds + 1
    /\ CACHE_ID' = builds + 1
    /\ assigned' = Append(assigned,
                           [instance |-> builds + 1, marker |-> local[t].mtime,
                            read_at |-> local[t].read_at, content |-> local[t].payload])
    /\ pc' = [pc EXCEPT ![t] = following("publish_cache")]
    /\ UNCHANGED <<source, mtime, REGISTRY_MTIME, lock, local, writes, forced, calls,
                   thread_frame>>

\* _REGISTRY_MTIME = mtime
PublishMtime(t) ==
    /\ pc[t] = "publish_mtime"
    /\ REGISTRY_MTIME' = local[t].mtime
    /\ pc' = [pc EXCEPT ![t] = following("publish_mtime")]
    /\ UNCHANGED <<source, mtime, REGISTRY_CACHE, builds, CACHE_ID, lock, local, writes,
                   forced, calls, assigned, thread_frame>>

\* return _REGISTRY_CACHE, and the block is left
Return(t) ==
    /\ pc[t] = "return"
    /\ local' = [local EXCEPT ![t].ret = [kind |-> "registry", instance |-> CACHE_ID,
                                          registry |-> REGISTRY_CACHE]]
    /\ lock' = 0
    /\ pc' = [pc EXCEPT ![t] = "done"]
    /\ UNCHANGED <<source, mtime, REGISTRY_CACHE, REGISTRY_MTIME, builds, CACHE_ID,
                   writes, forced, calls, assigned, thread_frame>>

\* the caller is done with what it got
Finish(t) ==
    /\ pc[t] = "done"
    /\ pc' = [pc EXCEPT ![t] = "idle"]
    /\ local' = [local EXCEPT ![t] = NoLocals]
    /\ UNCHANGED <<source, mtime, REGISTRY_CACHE, REGISTRY_MTIME, builds, CACHE_ID,
                   lock, writes, forced, calls, assigned, thread_frame>>

\* the administrator rewrites the source; its marker moves on
Rewrite(content) ==
    /\ writes < MaxWrites
    /\ writes' = writes + 1
    /\ source' = content
    /\ mtime' = mtime + 1
    /\ UNCHANGED <<REGISTRY_CACHE, REGISTRY_MTIME, builds, CACHE_ID, pc, lock, local,
                   forced, calls, assigned, thread_frame>>

NextThreads ==
    \/ \E t \in Threads, force_reload \in BOOLEAN : CallLoad(t, force_reload)
    \/ \E t \in Threads : Acquire(t)
    \/ \E t \in Threads : Stat(t)
    \/ \E t \in Threads : Check(t)
    \/ \E t \in Threads : Read(t)
    \/ \E t \in Threads : Build(t)
    \/ \E t \in Threads : PublishCache(t)
    \/ \E t \in Threads : PublishMtime(t)
    \/ \E t \in Threads : Return(t)
    \/ \E t \in Threads : Finish(t)
    \/ \E content \in ThreadSources : Rewrite(content)

SpecThreads == InitThreads /\ [][NextThreads]_vars

----------------------------------------------------------------------------
(* load_keywords(path=...): the source is read from the file the caller
   names, while _REGISTRY_CACHE and _REGISTRY_MTIME stay the single pair of
   module globals.  Two files are written and loaded here. *)

\* a file is written under a path, with the marker the file system gives it
WriteFile(path, content, marker) ==
    /\ call = Idle
    /\ registry = NoRegistry
    /\ files' = [files EXCEPT ![path] = [exists |-> TRUE, mtime |-> marker,
                                         content |-> content]]
    /\ UNCHANGED <<source, registry, mtime, REGISTRY_CACHE, REGISTRY_MTIME, call,
                   load_vars, seen_vars, thread_vars, cache_path, handler_vars>>

\* load_keywords(force_reload=..., path=...): the outcome names the object returned
LoadPath(path, force_reload) ==
    /\ call = Idle
    /\ registry = NoRegistry
    /\ builds < MaxBuilds
    /\ LET got == load_keywords_path(force_reload, files[path])
           instance == IF got.built THEN builds + 1 ELSE CACHE_ID
       IN /\ call' = [op |-> "load_keywords", query |-> path, arg |-> force_reload,
                      ret |-> IF got.ret.kind = "raise" THEN got.ret
                              ELSE [kind |-> "registry", instance |-> instance]]
          /\ REGISTRY_CACHE' = got.CACHE
          /\ REGISTRY_MTIME' = got.MTIME
          /\ builds' = IF got.built THEN builds + 1 ELSE builds
          /\ CACHE_ID' = instance
          /\ last_build' = IF got.built
                           THEN [instance |-> instance, marker |-> files[path].mtime,
                                 content |-> files[path].content]
                           ELSE last_build
          /\ cache_path' = IF got.built THEN path ELSE cache_path
    /\ UNCHANGED <<source, registry, mtime, exists, seen_vars, thread_vars, files,
                   handler_vars>>

NextPaths ==
    \/ \E path \in Paths, content \in ThreadSources, marker \in 1..MaxMarker :
           WriteFile(path, content, marker)
    \/ \E path \in Paths, force_reload \in BOOLEAN : LoadPath(path, force_reload)
    \/ Done

SpecPaths == Init /\ [][NextPaths]_vars

----------------------------------------------------------------------------
(* The paper watcher: lambda_handler of src/handler.py and of the built
   function (.aws-sam/build/PaperWatcherFunction/handler.py).  A run fetches
   the items of each feed, drops the ones the repository has seen, records
   the new ones as seen and mails them.  The repository is the object that
   the name SeenRepository of the handler module gives: the class of dal.py,
   or the replacement the tests bind to that name.  The class of dal.py is a
   dataclass with slots=True whose only field is table_name, and its
   __post_init__ assigns self._client, so constructing it raises
   AttributeError.  The replacement keeps a set of paper ids; its operations
   may raise the ClientError that the handler provides for. *)

PaperIds == {<<"a">>, <<"A">>, <<"b">>}

\* util.PaperItem, with the fields the handler looks at; published 0 is None
PaperItem(paper_id, published, matched_keywords) ==
    [paper_id |-> paper_id, published |-> published, matched_keywords |-> matched_keywords]

\* the feeds, in the order of config.sources
FeedOrder == <<"crossref", "pubmed">>
Feeds == {FeedOrder[i] : i \in 1..Len(FeedOrder)}

FeedLists ==
    LET a == PaperItem(<<"a">>, 1, TRUE)
        A == PaperItem(<<"A">>, 2, TRUE)
        b == PaperItem(<<"b">>, 0, FALSE)
    IN {<<>>, <<a>>, <<a, A>>, <<b, a>>}

\* what _fetch_sources returns: the feeds that did not fail, with their items
Fetches == UNION {[D -> FeedLists] : D \in SUBSET Feeds}

\* what a run meets: whether get_config succeeds, which class SeenRepository
\* names, whether the repository raises on a read or on a write, whether the
\* mail is delivered, and the options of the event
Environments ==
    [config_ok : BOOLEAN, repository : {"dal", "replaced"}, read_fails : BOOLEAN,
     write_fails : BOOLEAN, email_ok : BOOLEAN, keywords : BOOLEAN,
     dry_run : BOOLEAN, force_send_summary : BOOLEAN]

\* the function of src/handler.py takes no options from the event
PlainEnvironments ==
    {env \in Environments : ~env.keywords /\ ~env.dry_run /\ ~env.force_send_summary}

\* SeenRepository(config.ddb_table)
SeenRepository(class) ==
    IF class = "dal" THEN Raise("AttributeError") ELSE [kind |-> "repository"]

\* repository.is_seen(paper_id)
SeenRepository_is_seen(paper_id) == paper_id \in table

\* repository.mark_seen(items): the table afterwards, or the exception
SeenRepository_mark_seen(items, write_fails) ==
    IF items = <<>> THEN [kind |-> "ok", table |-> table]
    ELSE IF write_fails THEN Raise("ClientError")
    ELSE [kind |-> "ok",
          table |-> table \cup {items[i].paper_id : i \in 1..Len(items)}]

\* the items of a mapping from feeds to lists, feed after feed
RECURSIVE flat_from(_, _)
flat_from(items_by_source, k) ==
    IF k > Len(FeedOrder) THEN <<>>
    ELSE (IF FeedOrder[k] \in DOMAIN items_by_source
          THEN items_by_source[FeedOrder[k]] ELSE <<>>)
         \o flat_from(items_by_source, k + 1)

flat(items_by_source) == flat_from(items_by_source, 1)

\* _filter_new_items: per feed, the items the repository has not seen; a feed
\* without such items gets no key
filter_new_items(items_by_source) ==
    LET unseen(s) == SelectSeq(items_by_source[s],
                               LAMBDA item : ~SeenRepository_is_seen(item.paper_id))
    IN [s \in {f \in DOMAIN items_by_source : unseen(f) # <<>>} |-> unseen(s)]

\* _filter_seen_items of the built function
filter_seen_items(items_by_source) ==
    LET unseen(s) == SelectSeq(items_by_source[s],
                               LAMBDA item : ~SeenRepository_is_seen(item.paper_id))
    IN [s \in {f \in DOMAIN items_by_source : unseen(f) # <<>>} |-> unseen(s)]

\* sorted(items, key=published or datetime.min, reverse=True): stable
RECURSIVE sorted_by_published(_)
sorted_by_published(items) ==
    IF items = <<>> THEN <<>>
    ELSE LET x == Head(items)
             rest == sorted_by_published(Tail(items))
             before == {k \in 1..Len(rest) : rest[k].published <= x.published}
             at == IF before = {} THEN Len(rest) + 1 ELSE Min(before)
         IN SubSeq(rest, 1, at - 1) \o <<x>> \o SubSeq(rest, at, Len(rest))

\* the key of None is a naive datetime.min, the other keys carry a time zone:
\* comparing the two raises TypeError
sort_raises(items_by_source) ==
    \E s \in DOMAIN items_by_source :
        \E i, j \in 1..Len(items_by_source[s]) :
            items_by_source[s][i].published = 0 /\ items_by_source[s][j].published > 0

\* _sort_items
sort_items(items_by_source) ==
    [s \in DOMAIN items_by_source |-> sorted_by_published(items_by_source[s])]

\* keyword_match for an item without title and summary: it matches only when
\* no keyword is prepared
keyword_match(keywords) == ~keywords

\* filter_items of the built function: the items that match, the first of
\* each lower-cased paper id over all feeds; a feed without such items gets no key
RECURSIVE filter_from(_, _, _, _)
filter_from(items_by_source, keywords, k, seen_ids) ==
    IF k > Len(FeedOrder) THEN <<>>
    ELSE LET s == FeedOrder[k]
             items == IF s \in DOMAIN items_by_source THEN items_by_source[s] ELSE <<>>
             matched(item) == item.matched_keywords \/ keyword_match(keywords)
             firsts == {i \in 1..Len(items) :
                           /\ matched(items[i])
                           /\ lower(items[i].paper_id) \notin seen_ids
                           /\ \A j \in 1..(i - 1) :
                                  matched(items[j]) =>
                                      lower(items[j].paper_id) # lower(items[i].paper_id)}
             kept == [i \in 1..Len(items) |-> i \in firsts]
             RECURSIVE pick(_)
             pick(i) == IF i > Len(items) THEN <<>>
                        ELSE (IF kept[i] THEN <<items[i]>> ELSE <<>>) \o pick(i + 1)
         IN <<[source |-> s, items |-> pick(1)]>>
            \o filter_from(items_by_source, keywords, k + 1,
                           seen_ids \cup {lower(items[i].paper_id) : i \in firsts})

filter_items(items_by_source, keywords) ==
    LET per_feed == filter_from(items_by_source, keywords, 1, {})
        items_of(s) == per_feed[CHOOSE k \in 1..Len(per_feed) : per_feed[k].source = s].items
    IN [s \in {f \in DOMAIN items_by_source : items_of(f) # <<>>} |-> items_of(s)]

\* how a run ends: what it returns or raises, the table it leaves, the calls
\* of mark_seen and send_email it made, in order, and the items it delivered
Ended(status, after, effects, new_items) ==
    [status |-> status, table |-> after, effects |-> effects, new_items |-> new_items]

\* a handler that mails the items first and records them afterwards
send_then_mark(flat_items, env) ==
    LET wrote == SeenRepository_mark_seen(flat_items, env.write_fails)
    IN IF ~env.email_ok
       THEN Ended("EmailDeliveryError", table, <<"send_email">>, flat_items)
       ELSE IF wrote.kind = "raise"
       THEN Ended(wrote.error, table, <<"send_email", "mark_seen">>, flat_items)
       ELSE Ended("ok", wrote.table, <<"send_email", "mark_seen">>, flat_items)

\* repository.mark_seen(flat_items), then send_email(...); each in its try
\* block, whose handler logs and raises again
mark_then_send(flat_items, env) ==
    LET wrote == SeenRepository_mark_seen(flat_items, env.write_fails)
    IN IF wrote.kind = "raise"
       THEN Ended(wrote.error, table, <<"mark_seen">>, flat_items)
       ELSE IF ~env.email_ok
       THEN Ended("EmailDeliveryError", wrote.table, <<"mark_seen", "send_email">>,
                  flat_items)
       ELSE Ended("ok", wrote.table, <<"mark_seen", "send_email">>, flat_items)

\* lambda_handler of src/handler.py
lambda_handler(fetched_items, env) ==
    LET new_items == filter_new_items(fetched_items)
        flat_items == flat(sort_items(new_items))
    IN IF ~env.config_ok THEN Ended("ConfigError", table, <<>>, <<>>)
       ELSE IF DOMAIN fetched_items = {} THEN Ended("no_data", table, <<>>, <<>>)
       ELSE IF SeenRepository(env.repository).kind = "raise"
       THEN Ended(SeenRepository(env.repository).error, table, <<>>, <<>>)
       ELSE IF env.read_fails /\ flat(fetched_items) # <<>>
       THEN Ended("ClientError", table, <<>>, <<>>)
       ELSE IF DOMAIN new_items = {} THEN Ended("no_new_items", table, <<>>, <<>>)
       ELSE IF sort_raises(new_items) THEN Ended("TypeError", table, <<>>, <<>>)
       ELSE mark_then_send(flat_items, env)

\* _send_summary_email of the built function: a mail without new items
send_summary_email(status, env) ==
    IF env.email_ok THEN Ended(status, table, <<"send_email">>, <<>>)
    ELSE Ended("EmailDeliveryError", table, <<"send_email">>, <<>>)

\* lambda_handler of the built function
lambda_handler_build(fetched_items, env) ==
    LET summary == env.force_send_summary /\ ~env.dry_run
        filtered_items == filter_items(fetched_items, env.keywords)
        new_items == filter_seen_items(filtered_items)
        flat_items == flat(new_items)
    IN IF ~env.config_ok THEN Ended("ConfigError", table, <<>>, <<>>)
       ELSE IF flat(fetched_items) = <<>>
       THEN IF summary THEN send_summary_email("no_data", env)
            ELSE Ended("no_data", table, <<>>, <<>>)
       ELSE IF DOMAIN filtered_items = {}
       THEN IF summary THEN send_summary_email("no_matches", env)
            ELSE Ended("no_matches", table, <<>>, <<>>)
       ELSE IF SeenRepository(env.repository).kind = "raise"
       THEN Ended(SeenRepository(env.repository).error, table, <<>>, <<>>)
       ELSE IF env.read_fails THEN Ended("ClientError", table, <<>>, <<>>)
       ELSE IF flat_items = <<>>
       THEN IF summary THEN send_summary_email("no_new_items", env)
            ELSE Ended("no_new_items", table, <<>>, <<>>)
       ELSE IF env.dry_run THEN Ended("dry_run", table, <<>>, flat_items)
       ELSE mark_then_send(flat_items, env)

\* a run is recorded: what it fetched, what it handed to the check against the
\* repository, and how it ended; unsent collects what was handed to that check
\* in the runs whose mail failed after mark_seen had returned
Ran(handler, fetched_items, found, end) ==
    /\ runs < MaxRuns
    /\ runs' = runs + 1
    /\ table' = end.table
    /\ last_run' = [handler |-> handler, fetched |-> fetched_items, found |-> found,
               status |-> end.status, effects |-> end.effects,
               new_items |-> end.new_items]
    /\ unsent' = IF end.status = "EmailDeliveryError" /\ end.new_items # <<>>
                    /\ end.effects = <<"mark_seen", "send_email">>
                 THEN unsent \cup {found} ELSE unsent
    /\ UNCHANGED <<source, registry, mtime, REGISTRY_CACHE, REGISTRY_MTIME, call,
                   load_vars, seen_vars, thread_vars, path_vars>>

\* one invocation of the function of src/handler.py
LambdaHandler(fetched_items, env) ==
    Ran("src", fetched_items, fetched_items, lambda_handler(fetched_items, env))

\* one invocation of the built function
LambdaHandlerBuild(fetched_items, env) ==
    Ran("build", fetched_items, filter_items(fetched_items, env.keywords),
        lambda_handler_build(fetched_items, env))

NextHandler ==
    \/ \E fetched_items \in Fetches, env \in PlainEnvironments :
           LambdaHandler(fetched_items, env)
    \/ \E fetched_items \in Fetches, env \in Environments :
           LambdaHandlerBuild(fetched_items, env)

SpecHandler == Init /\ [][NextHandler]_vars

----------------------------------------------------------------------------
(* What the properties speak of. *)

Fields == <<"terms", "synonyms", "typos">>      \* Fields[t] feeds tier Modes[t]

blank(s) == s = <<>> \/ strip(s) = <<>>

\* the entries of a direct construction, and those the loader builds
DirectEntries == [i \in 1..Len(source) |-> KeywordEntry(source[i])]
LoaderAccepts == \A i \in 1..Len(source) : build_entry(source[i]).kind = "entry"
LoaderEntries == [i \in 1..Len(source) |-> build_entry(source[i]).entry]

\* the constructions whose input and outcome the state shows
Constructions ==
    (IF registry # NoRegistry
     THEN {[entries |-> DirectEntries, status |-> registry.status]} ELSE {})
    \cup
    (IF call.op = "load_keywords" /\ LoaderAccepts
     THEN {[entries |-> LoaderEntries,
            status |-> IF call.ret.kind = "raise" THEN call.ret.error ELSE "ok"]}
     ELSE {})

\* the registry a resolve, validate_only or parse call has worked on
UsedRegistry == IF registry.status = "ok" THEN registry ELSE REGISTRY_CACHE

\* the entries that registry was built from
UsedEntries == IF registry.status = "ok" THEN DirectEntries ELSE LoaderEntries

KeySet(reg, mode) == {reg.lookups[mode][i].key : i \in 1..Len(reg.lookups[mode])}

AllKeys(reg) == UNION {KeySet(reg, Modes[t]) : t \in 1..Len(Modes)}

\* the steps of a construction in the order in which it takes them: for each
\* entry the test of its id (tier 0), then its terms, synonyms and typos
Positions(E) ==
    UNION {{<<e, t, k>> : k \in 1..Len(E[e][Fields[t]])} :
              e \in 1..Len(E), t \in 1..Len(Fields)}
Rank(pos) == (pos[1] * 100) + (pos[2] * 10) + pos[3]
PhraseAt(E, pos) == E[pos[1]][Fields[pos[2]]][pos[3]]
NormAt(E, pos) == normalize_phrase(PhraseAt(E, pos))

RepeatedIds(E) ==
    {<<e, 0, 0>> : e \in {e \in 1..Len(E) :
        \E d \in 1..(e - 1) : E[d].canonical_id = E[e].canonical_id}}
EmptyPhrases(E) == {pos \in Positions(E) : NormAt(E, pos) = <<>>}
RepeatedPhrases(E) ==
    {pos \in Positions(E) :
        /\ NormAt(E, pos) # <<>>
        /\ \E old \in Positions(E) :
              /\ old[2] = pos[2]
              /\ Rank(old) < Rank(pos)
              /\ NormAt(E, old) = NormAt(E, pos)}

Offences(E) == RepeatedIds(E) \cup EmptyPhrases(E) \cup RepeatedPhrases(E)

\* the error of the first offending step, "ok" when no step offends
FirstOffence(E) ==
    IF Offences(E) = {} THEN "ok"
    ELSE LET first == CHOOSE pos \in Offences(E) :
                          \A other \in Offences(E) : Rank(pos) <= Rank(other)
         IN IF first \in RepeatedIds(E) THEN "DuplicateId"
            ELSE IF first \in EmptyPhrases(E) THEN "InvalidInput"
            ELSE "DuplicatePhrase"

\* phrase occurs in text between non-word characters or the ends of text
WholeWordIn(phrase, text) ==
    \E i \in 1..Len(text) :
        /\ i + Len(phrase) - 1 <= Len(text)
        /\ SubSeq(text, i, i + Len(phrase) - 1) = phrase
        /\ (i = 1 \/ ~isword(text[i - 1]))
        /\ (i + Len(phrase) - 1 = Len(text) \/ ~isword(text[i + Len(phrase)]))

----------------------------------------------------------------------------
(* The properties. *)

\* C1: in every successfully constructed registry the key sets of the three
\* tier maps are pairwise disjoint.
C1_TierKeysDisjoint ==
    \A reg \in {registry, REGISTRY_CACHE} :
        reg.status = "ok" =>
            \A t \in 1..Len(Modes), u \in 1..Len(Modes) :
                t # u => KeySet(reg, Modes[t]) \cap KeySet(reg, Modes[u]) = {}

\* C2, as stated: a construction whose entries repeat a normalized phrase
\* within one tier fails with DuplicatePhrase.
C2_SameTierRepeatIsDuplicatePhrase ==
    \A c \in Constructions :
        RepeatedPhrases(c.entries) # {} => c.status = "DuplicatePhrase"

\* C2, amended: a construction whose entries repeat a normalized phrase within
\* one tier yields no registry; it fails with DuplicatePhrase exactly when the
\* repeated phrase is the first offending step, and with DuplicateId or
\* InvalidInput when a repeated id or an empty phrase comes before it.
C2_SameTierRepeatFails ==
    \A c \in Constructions :
        RepeatedPhrases(c.entries) # {} =>
            /\ c.status \in {"DuplicatePhrase", "DuplicateId", "InvalidInput"}
            /\ c.status = FirstOffence(c.entries)

\* C2, witness: two entries with different ids repeat a phrase of one tier in
\* different letter case and spacing, and the construction has failed.
C2_Witness ==
    \E c \in Constructions :
        /\ c.status = "DuplicatePhrase"
        /\ Len(c.entries) = 2
        /\ c.entries[1].canonical_id # c.entries[2].canonical_id
        /\ \E pos \in RepeatedPhrases(c.entries) :
              pos[1] = 2 /\ PhraseAt(c.entries, pos) # NormAt(c.entries, pos)

\* C3, as stated: a construction whose entries repeat a canonical id fails
\* with DuplicateId.
C3_RepeatedIdIsDuplicateId ==
    \A c \in Constructions :
        RepeatedIds(c.entries) # {} => c.status = "DuplicateId"

\* C3, amended: a construction whose entries repeat a canonical id yields no
\* registry; it fails with DuplicateId exactly when no entry before the second
\* occurrence of the id offends, and with the error of that entry otherwise.
C3_RepeatedIdFails ==
    \A c \in Constructions :
        RepeatedIds(c.entries) # {} =>
            /\ c.status # "ok"
            /\ (c.status = "DuplicateId") =
                  (\A pos \in EmptyPhrases(c.entries) \cup RepeatedPhrases(c.entries) :
                      \E e \in RepeatedIds(c.entries) : Rank(e) < Rank(pos))

\* C3, witness: the second entry repeats the id of the first, which registered
\* a phrase, and the construction has failed with DuplicateId.
C3_Witness ==
    \E c \in Constructions :
        /\ c.status = "DuplicateId"
        /\ Len(c.entries) = 2
        /\ c.entries[1].terms # <<>>
        /\ c.entries[2].terms # <<>>

\* C4: resolve of a phrase registered in tier t of entry e returns e's id and
\* tier t.
C4_RegisteredPhraseResolvesToItsEntry ==
    (call.op = "resolve" /\ UsedRegistry.status = "ok") =>
        \A pos \in Positions(UsedEntries) :
            PhraseAt(UsedEntries, pos) = call.query =>
                /\ call.ret.kind = "result"
                /\ call.ret.canonical_id = UsedEntries[pos[1]].canonical_id
                /\ call.ret.mode = Modes[pos[2]]

\* C5: the canonical_id of every result is an id of the registry's entry set
\* and its matched_term is a phrase that entry registered in the reported
\* tier; every value of a tier map refers to such an entry.
C5_ResultsReferToOwningEntry ==
    /\ (call.op \in {"resolve", "validate_only"} /\ call.ret.kind = "result") =>
          \E i \in 1..Len(UsedRegistry.entries) :
              /\ UsedRegistry.entries[i].canonical_id = call.ret.canonical_id
              /\ \E t \in 1..Len(Modes) :
                    /\ Modes[t] = call.ret.mode
                    /\ \E k \in 1..Len(UsedEntries[i][Fields[t]]) :
                          UsedEntries[i][Fields[t]][k] = call.ret.matched_term
    /\ \A reg \in {registry, REGISTRY_CACHE} :
          reg.status = "ok" =>
              \A t \in 1..Len(Modes) :
                  \A n \in 1..Len(reg.lookups[Modes[t]]) :
                      LET item == reg.lookups[Modes[t]][n]
                      IN \E i \in 1..Len(reg.entries) :
                            /\ reg.entries[i].canonical_id = item.canonical_id
                            /\ \E k \in 1..Len(reg.entries[i][Fields[t]]) :
                                  reg.entries[i][Fields[t]][k] = item.phrase

\* C5, witness: a query has resolved to a phrase that is written in the source
\* in another letter case and spacing than its normalized form.
C5_Witness ==
    /\ call.op = "resolve"
    /\ call.ret.kind = "result"
    /\ call.ret.matched_term # normalize_phrase(call.ret.matched_term)
    /\ call.ret.mode = "synonym"

\* C6: for a non-empty query resolve returns none exactly when the normalized
\* query equals no registered phrase and contains none as a whole word.
C6_NoneExactlyWhenNoPhraseOccurs ==
    (call.op = "resolve" /\ ~blank(call.query) /\ UsedRegistry.status = "ok") =>
        (call.ret = None) =
            (\A key \in AllKeys(UsedRegistry) :
                /\ key # normalize_phrase(call.query)
                /\ ~WholeWordIn(key, normalize_phrase(call.query)))

\* C7: an empty or whitespace-only query given to resolve or validate_only is
\* rejected with InvalidInput, never answered with none.
C7_BlankQueryIsInvalidInput ==
    (call.op \in {"resolve", "validate_only"} /\ blank(call.query)) =>
        call.ret = Raise("InvalidInput")

\* C8: resolve gives the same outcome for all queries with the same normalized
\* form, and a query whose normalized form is that of a phrase of the source,
\* whatever the letter case and spacing of either, resolves to a phrase with
\* that normalized form.
C8_NormalizationIsShared ==
    call.op = "resolve" =>
        /\ \A other \in Queries :
              normalize_phrase(other) = normalize_phrase(call.query) =>
                  resolve(other, registry).ret = call.ret
        /\ UsedRegistry.status = "ok" =>
              \A pos \in Positions(UsedEntries) :
                  (/\ ~blank(call.query)
                   /\ NormAt(UsedEntries, pos) = normalize_phrase(call.query)) =>
                      /\ call.ret.kind = "result"
                      /\ normalize_phrase(call.ret.matched_term)
                            = normalize_phrase(call.query)

\* C8, witness: a query in capitals with a run of two spaces has resolved to a
\* phrase that is written differently in the source.
C8_Witness ==
    /\ call.op = "resolve"
    /\ call.ret.kind = "result"
    /\ call.query # normalize_phrase(call.query)
    /\ Len(split(call.query)) = 2
    /\ call.ret.matched_term # call.query
    /\ call.ret.matched_term # normalize_phrase(call.query)
    /\ normalize_phrase(call.ret.matched_term) = normalize_phrase(call.query)

\* C9: validate_only returns the result of resolve when the query resolves;
\* when it does not, it raises UnapprovedKeyword unless lenient, and returns
\* none if lenient.
C9_ValidateOnlyFollowsResolve ==
    call.op = "validate_only" =>
        LET resolved == resolve(call.query, NoRegistry).ret
        IN /\ resolved.kind = "result" => call.ret = resolved
           /\ resolved = None =>
                 call.ret = IF call.arg THEN None ELSE Raise("UnapprovedKeyword")

\* C9, witness: a strict validate_only of a query that the loaded registry does
\* not resolve has raised UnapprovedKeyword.
C9_Witness ==
    /\ call.op = "validate_only"
    /\ call.arg = FALSE
    /\ ~blank(call.query)
    /\ REGISTRY_CACHE.status = "ok"
    /\ AllKeys(REGISTRY_CACHE) # {}
    /\ call.ret = Raise("UnapprovedKeyword")

\* C10: for a query that is not blank and resolves to no keyword, parse returns
\* none under LENIENT and raises UnapprovedKeyword under STRICT, and yields no
\* ParsedQuery.
C10_UnresolvedQueryByPolicy ==
    (/\ call.op = "parse"
     /\ ~blank(call.query)
     /\ resolve(call.query, registry).ret = None) =>
        /\ upper(strip(call.arg)) = LENIENT => call.ret = None
        /\ upper(strip(call.arg)) = STRICT => call.ret = Raise("UnapprovedKeyword")
        /\ call.ret.kind # "parsed"

\* C10, witness: parse under the policy written " lenient" has returned none
\* for a query that a registry with phrases does not resolve.
C10_Witness ==
    /\ call.op = "parse"
    /\ call.arg \notin {STRICT, LENIENT}
    /\ upper(strip(call.arg)) = LENIENT
    /\ ~blank(call.query)
    /\ UsedRegistry.status = "ok"
    /\ AllKeys(UsedRegistry) # {}
    /\ call.ret = None

\* C11: in every ParsedQuery, under STRICT must_not is the remainder-token
\* sequence and ignored is empty; under LENIENT ignored is the remainder-token
\* sequence and must_not is empty; the two are never both non-empty.
C11_RemainderGoesToOnePartition ==
    (call.op = "parse" /\ call.ret.kind = "parsed") =>
        LET remainder_tokens == extract_remainder_tokens(call.query, call.ret.matched_term)
        IN /\ upper(strip(call.arg)) = STRICT =>
                 call.ret.must_not = remainder_tokens /\ call.ret.ignored = <<>>
           /\ upper(strip(call.arg)) = LENIENT =>
                 call.ret.ignored = remainder_tokens /\ call.ret.must_not = <<>>
           /\ call.ret.must_not = <<>> \/ call.ret.ignored = <<>>

\* C11, witness: a LENIENT parse has returned a ParsedQuery with two ignored
\* tokens and no must_not token.
C11_Witness ==
    /\ call.op = "parse"
    /\ call.ret.kind = "parsed"
    /\ upper(strip(call.arg)) = LENIENT
    /\ Len(call.ret.ignored) = 2
    /\ call.ret.must_not = <<>>

\* C12: parse accepts STRICT and LENIENT in any letter case and raises
\* UnsupportedPolicy for every other policy value the caller supplies.
C12_OtherPolicyValuesFail ==
    (call.op = "parse" /\ ~blank(call.query)) =>
        /\ upper(call.arg) \in ALLOWED_POLICIES => call.ret # Raise("UnsupportedPolicy")
        /\ upper(call.arg) \notin ALLOWED_POLICIES => call.ret = Raise("UnsupportedPolicy")

\* C12, as the code has it: for a query that is not blank, parse accepts STRICT
\* and LENIENT in any letter case and inside any surrounding whitespace, takes
\* the empty policy for STRICT, and raises UnsupportedPolicy for every other
\* policy value; for a blank query it raises InvalidInput whatever the policy.
C12_PolicyValuesAccepted ==
    call.op = "parse" =>
        LET accepted == call.arg = <<>> \/ upper(strip(call.arg)) \in ALLOWED_POLICIES
        IN /\ blank(call.query) => call.ret = Raise("InvalidInput")
           /\ (~blank(call.query) /\ ~accepted) => call.ret = Raise("UnsupportedPolicy")
           /\ (~blank(call.query) /\ accepted) => call.ret # Raise("UnsupportedPolicy")
           /\ (~blank(call.query) /\ call.arg = <<>>) =>
                 call.ret = parse(call.query, STRICT, registry).ret

\* C12, witness: parse with the empty policy has returned a ParsedQuery whose
\* remainder tokens are in must_not, as under STRICT.
C12_Witness ==
    /\ call.op = "parse"
    /\ call.arg = <<>>
    /\ call.ret.kind = "parsed"
    /\ call.ret.must_not # <<>>

\* C13: parse of an empty or whitespace-only query raises InvalidInput under
\* either policy, and under any other policy value, before the registry is
\* obtained: the call leaves the cache and its marker as they were, and it
\* returns neither none nor a ParsedQuery.
C13_BlankQueryFailsFirst ==
    [][(call'.op = "parse" /\ blank(call'.query)) =>
          /\ call'.ret = Raise("InvalidInput")
          /\ UNCHANGED <<REGISTRY_CACHE, REGISTRY_MTIME>>]_vars

\* C13, witness: a LENIENT parse of a whitespace-only query has raised
\* InvalidInput while no registry was passed and none was loaded, over a source
\* that a load would have accepted.
C13_Witness ==
    /\ call.op = "parse"
    /\ call.query = <<" ">>
    /\ call.arg = LENIENT
    /\ call.ret = Raise("InvalidInput")
    /\ registry = NoRegistry
    /\ REGISTRY_CACHE = NoRegistry
    /\ load_keywords(FALSE).ret.kind = "registry"
    /\ Len(source) > 0

\* C19: every ParsedQuery carries the filters, boosts, rerank and
\* negative_terms that the registry holds for the entry whose canonical id it
\* reports, and its raw field is the query exactly as it was passed.
C19_ParsedQueryCarriesEntryFields ==
    (call.op = "parse" /\ call.ret.kind = "parsed") =>
        /\ call.ret.raw = call.query
        /\ \E i \in 1..Len(UsedRegistry.entries) :
              LET entry == UsedRegistry.entries[i]
              IN /\ entry.canonical_id = call.ret.canonical_id
                 /\ call.ret.filters = entry.filters
                 /\ call.ret.boosts = entry.boosts
                 /\ call.ret.rerank = entry.rerank
                 /\ call.ret.negative_terms = entry.negative_terms
                 /\ entry.filters = UsedEntries[i].filters
                 /\ entry.negative_terms = UsedEntries[i].negative_terms

\* C19, witness: a ParsedQuery reports the second entry of the registry for a
\* query written with capitals and extra whitespace, kept as written in raw.
C19_Witness ==
    /\ call.op = "parse"
    /\ call.ret.kind = "parsed"
    /\ Len(UsedRegistry.entries) = 2
    /\ UsedRegistry.entries[2].canonical_id = call.ret.canonical_id
    /\ UsedRegistry.entries[1].canonical_id # call.ret.canonical_id
    /\ call.ret.raw # normalize_phrase(call.ret.raw)
    /\ call.ret.raw # lower(call.ret.raw)

\* a step that is a call of load_keywords
LoadStep == call = Idle /\ call'.op = "load_keywords"

\* the records that build the given contents, as the loader builds them
BuiltEntries(content) == [i \in 1..Len(content) |-> build_entry(content[i]).entry]

\* the source at hand is one that load_keywords can build a registry from
Loadable ==
    /\ exists
    /\ LoaderAccepts
    /\ KeywordRegistry(LoaderEntries).status = "ok"

\* C14: once a load_keywords has built a registry, every later call without
\* force_reload made while the source carries the marker of that build returns
\* that very instance and builds nothing.
C14_CachedInstanceIsReturned ==
    [][(/\ LoadStep
        /\ call'.arg = FALSE
        /\ last_build.instance # 0
        /\ exists
        /\ mtime = last_build.marker) =>
          /\ call'.ret = [kind |-> "registry", instance |-> last_build.instance]
          /\ builds' = builds
          /\ UNCHANGED <<REGISTRY_CACHE, REGISTRY_MTIME, CACHE_ID>>]_vars

\* C14, witness: a call without force_reload has returned the first and only
\* instance built, over a source whose contents were rewritten since under the
\* marker of the build.
C14_Witness ==
    /\ call.op = "load_keywords"
    /\ call.arg = FALSE
    /\ call.ret = [kind |-> "registry", instance |-> 1]
    /\ builds = 1
    /\ last_build.instance = 1
    /\ mtime = last_build.marker
    /\ source # last_build.content

\* C15: load_keywords builds a new registry from the source exactly when no
\* build has succeeded yet, when the source's marker differs from the marker of
\* the last successful build, or when force_reload is set (a source that cannot
\* be built raises instead); the new instance and the marker read replace the
\* cached ones, and the cache always is the last instance built.
C15_RebuildsExactlyWhenStale ==
    [][LoadStep =>
          LET stale == \/ last_build.instance = 0
                       \/ mtime # last_build.marker
                       \/ call'.arg
              built == builds' = builds + 1
          IN /\ built \/ builds' = builds
             /\ built => stale
             /\ (stale /\ Loadable) => built
             /\ (stale /\ ~Loadable) => call'.ret.kind = "raise"
             /\ built =>
                  /\ call'.ret = [kind |-> "registry", instance |-> builds']
                  /\ CACHE_ID' = builds'
                  /\ REGISTRY_MTIME' = mtime
                  /\ REGISTRY_CACHE' = KeywordRegistry(LoaderEntries)
             /\ CACHE_ID' = last_build'.instance
             /\ REGISTRY_MTIME' = last_build'.marker]_vars

\* C15, witness: a call without force_reload has built the second instance,
\* because the source carried another marker than at the first build.
C15_Witness ==
    /\ call.op = "load_keywords"
    /\ call.arg = FALSE
    /\ call.ret = [kind |-> "registry", instance |-> 2]
    /\ builds = 2
    /\ CACHE_ID = 2
    /\ REGISTRY_MTIME = mtime
    /\ Len(REGISTRY_CACHE.entries) = 2

\* C16: a load_keywords that raises leaves the cached instance and its marker
\* exactly as they were, and a load_keywords that returns hands out a registry
\* holding every entry of the contents it was built from, with every phrase of
\* every entry registered.
C16_FailedLoadPublishesNothing ==
    [][LoadStep =>
          /\ call'.ret.kind = "raise" =>
                /\ UNCHANGED <<REGISTRY_CACHE, REGISTRY_MTIME, CACHE_ID, builds, last_build>>
          /\ call'.ret.kind = "registry" =>
                LET built_from == BuiltEntries(last_build'.content)
                IN /\ call'.ret.instance = last_build'.instance
                   /\ REGISTRY_CACHE'.status = "ok"
                   /\ REGISTRY_CACHE'.entries = built_from
                   /\ AllKeys(REGISTRY_CACHE') =
                         {NormAt(built_from, pos) : pos \in Positions(built_from)}]_vars

\* C16, witness: a load over a source whose second record repeats a phrase has
\* raised DuplicatePhrase, and the cache still is the one-entry registry of the
\* earlier build, under the marker of that build.
C16_Witness ==
    /\ call.op = "load_keywords"
    /\ call.ret = Raise("DuplicatePhrase")
    /\ Len(source) = 2
    /\ REGISTRY_CACHE.status = "ok"
    /\ Len(REGISTRY_CACHE.entries) = 1
    /\ CACHE_ID = 1
    /\ REGISTRY_MTIME # mtime
    /\ REGISTRY_MTIME = last_build.marker

\* a record without id, with an id that is None or blank, or without a term
\* that is not blank
Malformed(record) ==
    \/ "id" \notin DOMAIN record
    \/ IF "id" \in DOMAIN record THEN record.id = PyNone \/ blank(record.id) ELSE TRUE
    \/ \A k \in 1..Len(record.terms) : blank(record.terms[k])

\* C18: the loader fails the whole load when any record of the source, at any
\* position, has no id, a blank id or no term that is not blank: no registry is
\* ever built from contents that hold such a record.
C18_MalformedRecordFailsLoad ==
    last_build.instance # 0 =>
        \A i \in 1..Len(last_build.content) : ~Malformed(last_build.content[i])

\* the words of a title, case, whitespace and punctuation ignored
TitleWords(title) == split(remove_punctuation(lower(title)))

\* the marks that are of the item: same url, same title up to case, whitespace
\* and punctuation
MarksOf(item) ==
    {m \in marks : m.url = item.url /\ TitleWords(m.title) = TitleWords(item.title)}

\* C20: is_seen(x) is true exactly when an item with the url of x and the
\* title of x up to case, whitespace and punctuation was marked since the last
\* reset_state, whatever the snippets, and the latest such mark is not older
\* than dedup_window_days.
C20_SeenWithinWindow ==
    call.op = "is_seen" =>
        call.ret.value = (\E m \in MarksOf(call.arg) : now - m.at <= dedup_window_days)

\* C21: reset_state, in a store with records as in one without, leaves a store
\* whose load_seen is empty and in which is_seen is false for every item; and
\* at any time an item is seen only if it was marked since the last
\* reset_state.
C21_ResetForgetsEverything ==
    /\ call.op = "reset_state" =>
          /\ load_seen = {}
          /\ \A item \in Items : ~is_seen(item)
    /\ \A item \in Items : is_seen(item) => MarksOf(item) # {}

\* C21, witness: reset_state has deleted the file of a store in which a day had
\* passed, and no item is seen.
C21_Witness ==
    /\ call.op = "reset_state"
    /\ call.ret.value = "deleted"
    /\ now > 0
    /\ load_seen = {}
    /\ \A item \in Items : ~is_seen(item)

\* the result that resolve reports for the phrase at a position of the entries
ResultAt(E, pos) ==
    [kind |-> "result", canonical_id |-> E[pos[1]].canonical_id,
     matched_term |-> PhraseAt(E, pos), mode |-> Modes[pos[2]]]

\* the order of the maps: tier first, then entry, then phrase inside the entry
ScanRank(pos) == (pos[2] * 100) + (pos[1] * 10) + pos[3]

FirstInScanOrder(S) == CHOOSE pos \in S : \A other \in S : ScanRank(pos) <= ScanRank(other)

\* a resolve call of a query that is not blank, on a registry that was built
Resolved == call.op = "resolve" /\ ~blank(call.query) /\ UsedRegistry.status = "ok"

\* C22: when the normalized query equals a registered phrase, resolve reports
\* the phrase of the highest-priority tier that holds it, with its entry and
\* tier, even if a phrase of a tier of higher priority is contained in the
\* query as a whole word.
C22_EqualityBeforeContainment ==
    Resolved =>
        LET equal == {pos \in Positions(UsedEntries) :
                         NormAt(UsedEntries, pos) = normalize_phrase(call.query)}
        IN equal # {} => call.ret = ResultAt(UsedEntries, FirstInScanOrder(equal))

\* C22, witness: the query equals a synonym and contains a term as a whole
\* word; the result is the synonym.
C22_Witness ==
    /\ Resolved
    /\ call.ret.kind = "result"
    /\ call.ret.mode = "synonym"
    /\ normalize_phrase(call.ret.matched_term) = normalize_phrase(call.query)
    /\ \E pos \in Positions(UsedEntries) :
          /\ pos[2] = 1
          /\ WholeWordIn(NormAt(UsedEntries, pos), normalize_phrase(call.query))

\* C23: when no tier holds the normalized query as a key, resolve reports the
\* first registered phrase contained in the query as a whole word, the tiers
\* taken in the order exact, synonym, typo and the phrases of a tier in the
\* order of their registration.
C23_FirstContainedPhraseInOrder ==
    (Resolved /\ normalize_phrase(call.query) \notin AllKeys(UsedRegistry)) =>
        LET contained == {pos \in Positions(UsedEntries) :
                             WholeWordIn(NormAt(UsedEntries, pos),
                                         normalize_phrase(call.query))}
        IN contained # {} => call.ret = ResultAt(UsedEntries, FirstInScanOrder(contained))

\* C24: a phrase that resolve reports and that is not the whole normalized
\* query stands in it between non-word characters or the ends of the query.
C24_ContainmentIsWordBounded ==
    (Resolved /\ call.ret.kind = "result") =>
        LET key == normalize_phrase(call.ret.matched_term)
        IN key # normalize_phrase(call.query) =>
              WholeWordIn(key, normalize_phrase(call.query))

\* where phrase stands in text between non-word characters or the ends of text
WholeWordAt(phrase, text) ==
    {i \in 1..Len(text) :
        /\ i + Len(phrase) - 1 <= Len(text)
        /\ SubSeq(text, i, i + Len(phrase) - 1) = phrase
        /\ (i = 1 \/ ~isword(text[i - 1]))
        /\ (i + Len(phrase) - 1 = Len(text) \/ ~isword(text[i + Len(phrase)]))}

\* the tokens of text once the occurrence of phrase at i is taken out
TokensWithout(phrase, text, i) ==
    ordered_unique(findall_from(SubSeq(text, 1, i - 1) \o <<" ">>
                                   \o SubSeq(text, i + Len(phrase), Len(text)),
                                <<>>, <<>>),
                   <<>>)

\* the remainder tokens of a ParsedQuery, whichever partition holds them
RemainderOf(parsed) == parsed.must_not \o parsed.ignored

\* C25: the remainder tokens of a ParsedQuery are the tokens of the query with
\* exactly one whole-word occurrence of the matched phrase taken out, whatever
\* the letter case and whitespace of the query and of the registered phrase.
C25_OneOccurrenceTakenOut ==
    (call.op = "parse" /\ call.ret.kind = "parsed") =>
        LET text == normalize_phrase(call.query)
            phrase == normalize_phrase(call.ret.matched_term)
        IN WholeWordAt(phrase, text) # {} =>
              \E i \in WholeWordAt(phrase, text) :
                  RemainderOf(call.ret) = TokensWithout(phrase, text, i)

\* the maximal runs of token characters in text, each by its first and last place
TokenRuns(text) ==
    {run \in (1..Len(text)) \X (1..Len(text)) :
        /\ run[1] <= run[2]
        /\ \A i \in run[1]..run[2] : istoken(text[i])
        /\ (run[1] = 1 \/ ~istoken(text[run[1] - 1]))
        /\ (run[2] = Len(text) \/ ~istoken(text[run[2] + 1]))}

\* where a token first stands in text
FirstPlace(token, text) ==
    Min({run[1] : run \in {r \in TokenRuns(text) : SubSeq(text, r[1], r[2]) = token}})

\* C26: the remainder tokens of a ParsedQuery are the maximal runs of lowercase
\* letters, digits and the characters @ . _ - of the remainder, each once, in
\* the order in which they first stand in it.
C26_TokensAreOrderedUniqueRuns ==
    (call.op = "parse" /\ call.ret.kind = "parsed") =>
        LET remainder == sub_once(lower(call.ret.matched_term), lower(call.query))
            tokens == RemainderOf(call.ret)
        IN /\ {tokens[k] : k \in 1..Len(tokens)} =
                 {SubSeq(remainder, run[1], run[2]) : run \in TokenRuns(remainder)}
           /\ \A k, l \in 1..Len(tokens) :
                 k < l => /\ tokens[k] # tokens[l]
                          /\ FirstPlace(tokens[k], remainder) < FirstPlace(tokens[l], remainder)

\* C26, witness: the remainder of a query written with a capital holds the
\* same token twice, and the ParsedQuery holds it once.
C26_Witness ==
    /\ call.op = "parse"
    /\ call.ret.kind = "parsed"
    /\ call.query # lower(call.query)
    /\ Len(RemainderOf(call.ret)) = 1
    /\ Cardinality(TokenRuns(sub_once(lower(call.ret.matched_term), lower(call.query)))) = 2

----------------------------------------------------------------------------
(* load_keywords under concurrent callers. *)

\* the threads whose call has returned a registry and that still hold it
Returned == {t \in Threads : pc[t] = "done" /\ local[t].ret.kind = "registry"}

(* C27: at most one thread at a time is inside the block of load_keywords
   that checks the marker, rebuilds and publishes; while the source is not
   rewritten and no call forces a reload, the registry is built once and
   every call that has returned holds that one object; and whenever no thread
   is inside the block, the cached object is the one assigned last, paired
   with the marker that the call which built it had read. *)
C27_OneThreadBuildsOnce ==
    /\ Cardinality(InSection) <= 1
    /\ (writes = 0 /\ ~forced) =>
           /\ builds <= 1
           /\ \A t \in Returned : builds = 1 /\ local[t].ret.instance = 1
    /\ (InSection = {} /\ CACHE_ID # 0) =>
           /\ CACHE_ID = assigned[Len(assigned)].instance
           /\ REGISTRY_MTIME = assigned[Len(assigned)].marker

\* C27, witness: two threads have called without force on the empty cache, the
\* source was never rewritten, one registry was built and both hold it
C27_Witness ==
    /\ Returned = Threads
    /\ writes = 0
    /\ ~forced
    /\ builds = 1
    /\ \A t \in Threads : local[t].ret.instance = 1

(* C29: the marker recorded with a registry was read before the contents the
   registry was built from, so it is never newer than these contents; and a
   call without force that has read the marker the source still has, that is,
   a call made after the last rewrite, returns a registry built from the
   contents the source has now, whatever rewrites overtook earlier loads. *)
C29_MarkerNotNewerThanContents ==
    /\ \A k \in 1..Len(assigned) : assigned[k].marker <= assigned[k].read_at
    /\ \A t \in Returned :
           (~local[t].force_reload /\ local[t].mtime = mtime) =>
               assigned[local[t].ret.instance].content = source

\* C29, witness: a rewrite overtook a load between its reading of the marker
\* and its reading of the contents, no call forced a reload, and a later call
\* without force has returned a registry built from the present contents
C29_Witness ==
    /\ ~forced
    /\ \E t \in Returned :
           /\ local[t].mtime = mtime
           /\ assigned[local[t].ret.instance].content = source
           /\ \E k \in 1..(local[t].ret.instance - 1) :
                  assigned[k].marker < assigned[k].read_at

----------------------------------------------------------------------------
(* load_keywords with a path argument. *)

(* C28: a load_keywords call for a path returns a registry that was built
   from the file under that path, never one built from another path. *)
C28_RegistryIsOfThePath ==
    (call.op = "load_keywords" /\ call.ret.kind = "registry") => cache_path = call.query

----------------------------------------------------------------------------
(* The paper watcher. *)

(* C30: in a run of lambda_handler that has new items to deliver, send_email
   is called only after mark_seen, and not at all when mark_seen has raised;
   when send_email has raised after mark_seen returned, the items of the run
   are in the repository, and the repository check of any later run over the
   same items finds none of them new. *)
C30_MarkedBeforeMailed ==
    /\ last_run.new_items # <<>> =>
           /\ (\E i \in 1..Len(last_run.effects) : last_run.effects[i] = "send_email") =>
                  last_run.effects = <<"mark_seen", "send_email">>
           /\ last_run.status = "ClientError" => last_run.effects = <<"mark_seen">>
    /\ (last_run.status = "EmailDeliveryError" /\ last_run.new_items # <<>>) =>
           \A i \in 1..Len(last_run.new_items) : last_run.new_items[i].paper_id \in table
    /\ \A found \in unsent :
           /\ DOMAIN filter_new_items(found) = {}
           /\ DOMAIN filter_seen_items(found) = {}

\* C30, witness: the mail of an earlier run failed after its items were
\* recorded, and a later run over the same items has ended with no new items
C30_Witness ==
    /\ last_run.status = "no_new_items"
    /\ last_run.found \in unsent
    /\ \E s \in DOMAIN last_run.found : last_run.found[s] # <<>>

====
